---- MODULE Spec2Model ----
(***************************************************************************)
(* Model of the sherlog logging engine: the single-file logger, the        *)
(* rolling loggers (timer driven and message-count driven), the level      *)
(* routed multi-file logger and the fan-out poly logger.                   *)
(*                                                                         *)
(* A file name is a sequence of tokens (strings); a maximal run of decimal *)
(* digits is one token.  A file on disk is a sequence of entries           *)
(* [w, r, c, at]: chunk c of the r-th record written by writer w, where    *)
(* c = SepChunk is the "\n\n" record separator and at is the file that was *)
(* active when the writer took the mutex.  An *os.File handle is           *)
(* identified with the name it was opened on; NilFile is the nil handle.   *)
(***************************************************************************)
EXTENDS Integers, Sequences, FiniteSets, TLC

\* ------------------------------------------------------------------ bounds
NumWriters == 2
MaxWrites == 3
MaxTimedWrites == 2
NumChunks == 2
MaxDay == 2
MaxCloses == 1
MaxRolls == 2
MaxK == 3
MaxSeqWrites == 7
MaxLevelId == 2
MaxLogs == 2
MaxThreeLevelLogs == 3
NumMembers == 2
NumCallers == 2
MaxPolyLogs == 2
MaxEvents == 2
MaxEventOps == 4
MaxChain == 2
MaxClock == 2
MaxSharedLogs == 2
UnitsPerDay == 3
MaxNights == 2
MaxLate == 1
MaxPolyCloses == 2
MaxScan == 5
MaxSkip == 7
MaxExisting == 4
defaultStackTraceDepth == 256

Writers == 1..NumWriters
SepChunk == 0
NilFile == <<>>
Free == 0
TimerId == NumWriters + 1

VARIABLES
  kind,          \* which logger was constructed: "file", "timed", "nightly" or "sized"
  countToRollOn, \* SizeBasedRollingFileLogger.countToRollOn
  baseFilePath,  \* RollingFileLogger.baseFilePath
  budget,        \* the number of Log calls the callers make
  wall,          \* the instant time.Now() last returned to the rollNightly
                 \* goroutine, in clock units since the midnight that began day 1
  nap,           \* history: the last Sleep of rollNightly: the instant read,
                 \* the duration computed and the instant of the wake-up
  scan,          \* one call of incFileNameUntilNotExists: its fileName, the
                 \* increments made, the files that exist (fs) and whether the
                 \* directory refuses os.Stat (denied)
  mutex,         \* FileLogger.mutex: Free or the id of the holder
  file,          \* FileLogger.file
  logFilePath,   \* FileLogger.logFilePath
  running,       \* RollingFileLogger.running
  curCount,      \* SizeBasedRollingFileLogger.curCount
  disk,          \* the file system: name -> content
  closed,        \* handles on which Close has been called
  synced,        \* name -> length of the content covered by the last Sync
  today,         \* the date time.Now() last returned
  wr,            \* the goroutines calling Log: pc, locals and the history
                 \* fields at (l.file), saw (the state of the logger) and late
                 \* (a Close had returned) taken when the mutex was acquired
  tpc,           \* the rollEvery / rollNightly goroutine
  cl,            \* the goroutine calling Close: pc, the number of Close calls
                 \* that returned and the value of rolls when the last one did
  returned,      \* history: <<w, r, result, saw, late>> of every Log that returned
  pendingFail,   \* history: a roll failed and no Log was attempted since
  rolls          \* history: the number of rolls performed

timeVars == <<wall, nap>>
cfgVars == <<kind, countToRollOn, baseFilePath, budget, timeVars, scan>>
fileVars == <<mutex, file, logFilePath, disk, closed, synced, today>>
rollVars == <<running, curCount, pendingFail, rolls>>
procVars == <<wr, tpc, cl, returned>>
sinkVars == <<cfgVars, fileVars, rollVars, procVars>>

VARIABLES
  paths,          \* NewMultiFileLogger's argument: Level -> path
  defaultLogPath, \* NewMultiFileLogger's argument
  mpc,            \* where NewMultiFileLogger is: "create", "default", "built", "failed"
  todo,           \* the keys of paths the range loop has not yet visited
  cachedLoggers,  \* createRobustLoggers' cachedLoggers: path -> logger
  loggers,        \* MultiFileLogger.loggers: Level -> logger
  defaultLogger,  \* MultiFileLogger.defaultLogger, 0 when nil
  sinks,          \* the loggers constructed, in order: path, and the numbers
                  \* of Close and Log calls received
  rfiles,         \* path -> the records in that file
  lastLog,        \* history: the last Log's event, logger, logger result (got), result
  nlogs,          \* history: the number of MultiFileLogger.Log calls
  mcloses         \* history: the number of MultiFileLogger.Close calls

routeVars == <<paths, defaultLogPath, mpc, todo, cachedLoggers, loggers,
               defaultLogger, sinks, rfiles, lastLog, nlogs, mcloses>>

VARIABLES
  ploggers,       \* PolyLogger.Loggers: what each member's Log returns
  phandler,       \* whether PolyLogger.handleLoggerFail is non-nil
  wgCounter,      \* PolyLogger.waitGroup: the counter,
  wgWaiters,      \* the number of goroutines parked in Wait
  wgSema,         \* and the wake-ups released to them
  pcl,            \* the goroutines calling PolyLogger.Log
  ptask,          \* the runLoggerWithFail goroutines of each caller's call
  pinvoked,       \* history: calls of each member's Log in the caller's call
  phandled,       \* history: calls of handleLoggerFail in the caller's call
  preceived,      \* history: the events each member has written
  ppanic,         \* the process died in a panic
  pclose          \* the goroutine calling PolyLogger.Close: pc, loop index and
                  \* calls returned; for each member the goroutines go logger.Close()
                  \* started and not yet run (pending) and the Close calls it received

polyVars == <<ploggers, phandler, wgCounter, wgWaiters, wgSema, pcl, ptask,
              pinvoked, phandled, preceived, ppanic, pclose>>

VARIABLES
  events,         \* the exceptions constructed, in order: the fields of
                  \* StdException and, for a LeveledException, level
  calls,          \* history: for each exception, the calls of
                  \* GetStackTraceAsString (asked) and of stackTraceAsString (built)
  outs,           \* history: for each exception, <<kind, stack section>> of its renders
  clock,          \* the second time.Now() last returned
  lastOp,         \* history: the last operation, its argument and its result
  eops,           \* history: the number of operations performed
  rt,             \* the goroutines of one PolyLogger.Log rendering its argument
  plogs,          \* history: the number of PolyLogger.Log calls on an exception
  prepended       \* history: for each exception the messages PrependMsg was
                  \* called with, in the order of the calls

eventVars == <<events, calls, outs, clock, lastOp, eops, rt, plogs, prepended>>

vars == <<sinkVars, routeVars, polyVars, eventVars>>

\* ------------------------------------------------------------- file names
ExtToks == {".log"}
BaseFilePath == <<"x", ".log">>
Digits == <<"1", "2", "3", "4", "5", "6", "7", "8", "9">>
DateToks == <<"_D1", "_D2", "_D3", "_D4", "_D5", "_D6">>

Last(s) == s[Len(s)]
Prefix(s, n) == SubSeq(s, 1, n)

\* filepath.Ext: the extension of the final path element
Ext(fileName) ==
  IF Len(fileName) > 0 /\ Last(fileName) \in ExtToks THEN <<Last(fileName)>> ELSE <<>>

\* fmt's %d verb, printing
FormatInt(n) == Digits[n]

\* fmt's %d verb, scanning: the target keeps its old value 0 when no number is read
ScanInt(tok) ==
  IF \E i \in DOMAIN Digits : Digits[i] = tok
    THEN CHOOSE i \in DOMAIN Digits : Digits[i] = tok
    ELSE 0

\* strings.Index(fileName, "("), 1-based; 0 when absent
FirstParenIndex(fileName) ==
  IF \E i \in DOMAIN fileName : fileName[i] = "("
    THEN CHOOSE i \in DOMAIN fileName :
           fileName[i] = "(" /\ \A j \in 1..(i-1) : fileName[j] # "("
    ELSE 0

incFileName(fileName) ==
  LET ext == Ext(fileName)
      stem == Prefix(fileName, Len(fileName) - Len(ext))
      hasVersion == Last(stem) = ")"
      fpi == FirstParenIndex(stem)
      fileVersion == IF hasVersion /\ fpi < Len(stem) THEN ScanInt(stem[fpi + 1]) ELSE 0
      cut == IF hasVersion THEN Prefix(stem, fpi - 1) ELSE stem
  IN cut \o <<"(", FormatInt(fileVersion + 1), ")">> \o ext

\* mutation: os.Stat never finds the file
fileNeverExists(fileName, fs) == FALSE

\* os.Stat(fileName) finds the file
fileExists(fileName, fs) == fileName \in DOMAIN fs

RECURSIVE incFileNameUntilNotExists(_, _)
incFileNameUntilNotExists(fileName, fs) ==
  IF fileExists(fileName, fs)
    THEN incFileNameUntilNotExists(incFileName(fileName), fs)
    ELSE fileName

\* the names the loop of incFileNameUntilNotExists tries, from fileName on
RECURSIVE Tried(_, _)
Tried(fileName, n) ==
  IF n = 0 THEN {} ELSE {fileName} \cup Tried(incFileName(fileName), n - 1)

\* fileExists: _, err := os.Stat(fileName); return !os.IsNotExist(err), where
\* os.Stat fails with another error than ErrNotExist (err) or finds the file
\* or not (found)
statNotIsNotExist(err, found) == err \/ found

\* one turn of for fileExists(fileName) { fileName = incFileName(fileName) },
\* or the return of fileName
ScanStep ==
  /\ scan.pc = "test"
  /\ IF statNotIsNotExist(scan.denied, fileExists(scan.name, scan.fs))
       THEN /\ scan.incs < MaxScan
            /\ scan' = [scan EXCEPT !.name = incFileName(@), !.incs = @ + 1]
       ELSE scan' = [scan EXCEPT !.pc = "done"]
  /\ UNCHANGED <<eventVars, routeVars, polyVars, kind, countToRollOn, baseFilePath, budget,
                 timeVars, fileVars, rollVars, procVars>>

getTimestampedFileName(fileName, now, fs) ==
  LET ext == Ext(fileName)
  IN incFileNameUntilNotExists(
       Prefix(fileName, Len(fileName) - Len(ext)) \o <<DateToks[now]>> \o ext, fs)

\* ------------------------------------------------------------ file handles
\* (*os.File).Write and Sync fail on a nil or closed handle
Valid(h) == h # NilFile /\ h \notin closed

WriteTo(h, e) == IF Valid(h) THEN [disk EXCEPT ![h] = Append(@, e)] ELSE disk

CloseHandle(h) == IF h = NilFile THEN closed ELSE closed \cup {h}

\* the file system after openFile(name) succeeded (O_APPEND|O_CREATE)
Created(name) ==
  [n \in DOMAIN disk \cup {name} |-> IF n \in DOMAIN disk THEN disk[n] ELSE <<>>]

\* ------------------------------------------------------------------ Init
\* NewFileLogger(path) / NewFileLogger(getTimestampedFileName(path))
NoNap == [at |-> 0, d |-> 0, woke |-> 0]
NoScan == [pc |-> "none", from |-> NilFile, name |-> NilFile, incs |-> 0, fs |-> <<>>,
           denied |-> FALSE]

NameFor(k, base, fs) ==
  IF k = "file" THEN base ELSE getTimestampedFileName(base, 1, fs)

InitialName(k, fs) == NameFor(k, BaseFilePath, fs)

Idle == [pc |-> "idle", ev |-> "sherlog", file |-> NilFile, at |-> NilFile,
         saw |-> "open", late |-> FALSE, chunk |-> 0, tmp |-> 0, err |-> FALSE,
         count |-> 0]

\* the number of Log calls explored: fewer beside the timer goroutine
MaxCalls(k) == IF k \in {"timed", "nightly"} THEN MaxTimedWrites ELSE MaxWrites

\* the state after the constructor of a logger of kind k on one of the paths
\* bases returned it to the goroutines ws, which go on to make n calls; the
\* directory may hold a file of an earlier run
SinkInitWith(k, ws, bases, n) ==
  /\ kind = k
  /\ budget = n
  /\ wall \in (IF k = "nightly" THEN 0..(UnitsPerDay - 1) ELSE {0})
  /\ nap = NoNap
  /\ scan = NoScan
  /\ baseFilePath \in bases
  /\ \E pre \in SUBSET {getTimestampedFileName(baseFilePath, 1, <<>>)} :
       LET name == NameFor(k, baseFilePath, [n1 \in pre |-> <<>>])
       IN /\ disk = [n1 \in pre \cup {name} |-> <<>>]
          /\ file = name
          /\ logFilePath = name
          /\ synced = [n1 \in pre \cup {name} |-> 0]
  /\ mutex = Free
  /\ running = FALSE
  /\ curCount = 0
  /\ countToRollOn \in (IF k = "sized" THEN 1..MaxK ELSE {0})
  /\ closed = {}
  /\ today = 1
  /\ wr = [w \in Writers |-> IF w \in ws THEN Idle ELSE [Idle EXCEPT !.pc = "none"]]
  /\ tpc = IF k \in {"timed", "nightly"} THEN "start" ELSE "none"
  /\ cl = [pc |-> "idle", count |-> 0, rollsAt |-> 0]
  /\ returned = {}
  /\ pendingFail = FALSE
  /\ rolls = 0

SinkInit(k, ws) == SinkInitWith(k, ws, {BaseFilePath}, MaxCalls(k))

\* ------------------------------------------------------------- sync.Mutex
\* mutation: Lock never waits
CanLockAlways(p) == TRUE

\* mutex.Lock() returns once no goroutine holds the mutex
CanLock(p) == mutex = Free

RECURSIVE Sum(_, _)
Sum(f, S) ==
  IF S = {} THEN 0 ELSE LET x == CHOOSE y \in S : TRUE IN f[x] + Sum(f, S \ {x})

\* the number of Log calls made so far
Calls ==
  Sum([w \in Writers |-> wr[w].count + (IF wr[w].pc \in {"idle", "none"} THEN 0 ELSE 1)],
      Writers)

\* --------------------------------------------------- FileLogger.log et al.
\* the call returns err; the goroutine's locals die
Return(w, err) ==
  /\ wr' = [wr EXCEPT ![w] = [Idle EXCEPT !.count = wr[w].count + 1]]
  /\ returned' = returned \cup
       {<<w, wr[w].count + 1, IF err THEN "err" ELSE "ok", wr[w].saw, wr[w].late>>}

\* the Writes of a render: the one Write of the marshalled JSON of a plain
\* error in LogJson, several otherwise
Chunks(ev) == IF ev = "json" THEN 1 ELSE NumChunks

\* mutation: the error of a failed Write is dropped
WriteErrorDropped(w, me, h, c) ==
  /\ disk' = WriteTo(h, [w |-> w, r |-> me.count + 1, c |-> c, at |-> me.at])
  /\ wr' = [wr EXCEPT ![w] =
              [me EXCEPT !.chunk = IF c < Chunks(me.ev) THEN c + 1 ELSE c,
                         !.pc = IF c < Chunks(me.ev) THEN "render"
                                ELSE IF me.ev = "sherlog" THEN "sep"
                                ELSE "unlock"]]

\* one writer.Write of the render by w, chunk c, through handle h, at the
\* state me of w: the first failing Write is returned (through the deferred
\* Unlock); after the last one Log and LogNoStack go on to the separator and
\* logNonSherlogError returns
Write(w, me, h, c) ==
  IF Valid(h)
    THEN /\ disk' = WriteTo(h, [w |-> w, r |-> me.count + 1, c |-> c, at |-> me.at])
         /\ wr' = [wr EXCEPT ![w] =
                     [me EXCEPT !.chunk = IF c < Chunks(me.ev) THEN c + 1 ELSE c,
                                !.pc = IF c < Chunks(me.ev) THEN "render"
                                       ELSE IF me.ev = "sherlog" THEN "sep"
                                       ELSE "unlock"]]
    ELSE /\ disk' = disk
         /\ wr' = [wr EXCEPT ![w] = [me EXCEPT !.chunk = c, !.err = TRUE, !.pc = "unlock"]]

\* the calling goroutines are interchangeable: they are numbered in the order
\* of their first call
InOrder(w) ==
  \A v \in Writers : v < w => wr[v].count > 0 \/ wr[v].pc # "idle"

\* FileLogger.Log: pick the branch for the error's type; log /
\* logNonSherlogError: mutex.Lock(), logFunc is handed l.file and makes its
\* first Write
Lock(w) ==
  /\ wr[w].pc = "idle"
  /\ Calls < budget
  /\ InOrder(w)
  /\ CanLock(w)
  /\ mutex' = w
  /\ pendingFail' = FALSE
  /\ \E ev \in {"sherlog", "plain"} :
       Write(w, [wr[w] EXCEPT !.ev = ev, !.file = file, !.at = file,
                              !.saw = IF file = NilFile THEN "nil"
                                      ELSE IF pendingFail THEN "recovered"
                                      ELSE "open",
                              !.late = cl.count > 0],
             file, 1)
  /\ UNCHANGED <<eventVars, routeVars, polyVars, cfgVars, file, logFilePath, closed, synced, today,
                 running, curCount, rolls, tpc, cl, returned>>

\* FileLogger.LogJson on an error that is no JsonLoggable: json.Marshal,
\* mutex.Lock() and the one l.file.Write(jsonBytes)
LogJson(w) ==
  /\ wr[w].pc = "idle"
  /\ Calls < budget
  /\ InOrder(w)
  /\ CanLock(w)
  /\ mutex' = w
  /\ pendingFail' = FALSE
  /\ Write(w, [wr[w] EXCEPT !.ev = "json", !.file = file, !.at = file,
                            !.saw = IF file = NilFile THEN "nil"
                                    ELSE IF pendingFail THEN "recovered"
                                    ELSE "open",
                            !.late = cl.count > 0],
           file, 1)
  /\ UNCHANGED <<eventVars, routeVars, polyVars, cfgVars, file, logFilePath, closed, synced, today,
                 running, curCount, rolls, tpc, cl, returned>>

\* a later writer.Write of the render (on the handle logFunc was given, or
\* the Writes of logNonSherlogError on l.file)
Render(w) ==
  /\ wr[w].pc = "render"
  /\ Write(w, wr[w], IF wr[w].ev = "sherlog" THEN wr[w].file ELSE file, wr[w].chunk)
  /\ UNCHANGED <<eventVars, routeVars, polyVars, cfgVars, mutex, file, logFilePath, closed, synced, today,
                 rollVars, tpc, cl, returned>>

\* l.file.Write([]byte("\n\n")), its result ignored
Separator(w) ==
  /\ wr[w].pc = "sep"
  /\ disk' = WriteTo(file, [w |-> w, r |-> wr[w].count + 1, c |-> SepChunk,
                            at |-> wr[w].at])
  /\ wr' = [wr EXCEPT ![w].pc = "sync"]
  /\ UNCHANGED <<eventVars, routeVars, polyVars, cfgVars, mutex, file, logFilePath, closed, synced, today,
                 rollVars, tpc, cl, returned>>

\* mutation: SizeBasedRollingFileLogger.Log goes on to incAndRollIfNecessary
\* whatever the write returned
UnlockAndCount(w, err) ==
  /\ mutex' = Free
  /\ IF kind = "sized"
       THEN /\ wr' = [wr EXCEPT ![w].pc = "incLoad"]
            /\ returned' = returned
       ELSE Return(w, err)

\* the deferred mutex.Unlock() and the return of err; SizeBasedRollingFileLogger.Log
\* goes on to incAndRollIfNecessary when the write returned nil
Unlock(w, err) ==
  /\ mutex' = Free
  /\ IF kind = "sized" /\ ~err
       THEN /\ wr' = [wr EXCEPT ![w].pc = "incLoad"]
            /\ returned' = returned
       ELSE Return(w, err)

\* err = l.file.Sync(), then the return
Sync(w) ==
  /\ wr[w].pc = "sync"
  /\ synced' = IF Valid(file) THEN [synced EXCEPT ![file] = Len(disk[file])] ELSE synced
  /\ Unlock(w, ~Valid(file))
  /\ UNCHANGED <<eventVars, routeVars, polyVars, cfgVars, file, logFilePath, disk, closed, today, rollVars, tpc, cl>>

\* the return of logNonSherlogError, or of a render that failed
LogReturn(w) ==
  /\ wr[w].pc = "unlock"
  /\ Unlock(w, wr[w].err)
  /\ UNCHANGED <<eventVars, routeVars, polyVars, cfgVars, file, logFilePath, disk, closed, synced, today,
                 rollVars, tpc, cl>>

\* ------------------------------- SizeBasedRollingFileLogger, after the write
\* rfl.curCount++ is a load and a store, neither under the mutex
IncLoad(w) ==
  /\ wr[w].pc = "incLoad"
  /\ wr' = [wr EXCEPT ![w].tmp = curCount, ![w].pc = "incStore"]
  /\ UNCHANGED <<eventVars, routeVars, polyVars, cfgVars, fileVars, rollVars, tpc, cl, returned>>

IncStore(w) ==
  /\ wr[w].pc = "incStore"
  /\ curCount' = wr[w].tmp + 1
  /\ wr' = [wr EXCEPT ![w].pc = "check"]
  /\ UNCHANGED <<eventVars, routeVars, polyVars, cfgVars, fileVars, running, pendingFail, rolls, tpc, cl, returned>>

\* mutation: the threshold test is > instead of >=
incAndRollIfAbove(w) ==
  /\ wr[w].pc = "check"
  /\ IF curCount > countToRollOn
       THEN /\ wr' = [wr EXCEPT ![w].pc = "roll"]
            /\ returned' = returned
       ELSE Return(w, FALSE)
  /\ UNCHANGED <<eventVars, routeVars, polyVars, cfgVars, fileVars, rollVars, tpc, cl>>

\* if rfl.curCount >= rfl.countToRollOn { return rfl.roll() }; return nil
incAndRollIfNecessary(w) ==
  /\ wr[w].pc = "check"
  /\ IF curCount >= countToRollOn
       THEN /\ wr' = [wr EXCEPT ![w].pc = "roll"]
            /\ returned' = returned
       ELSE Return(w, FALSE)
  /\ UNCHANGED <<eventVars, routeVars, polyVars, cfgVars, fileVars, rollVars, tpc, cl>>

\* ------------------------------------------------- RollingFileLogger.roll
\* what roll does to the file system and the handle
Swap(now, ok) ==
  LET name == getTimestampedFileName(baseFilePath, now, disk)
  IN /\ today' = now
     /\ closed' = CloseHandle(file)
     /\ logFilePath' = name
     /\ IF ok
          THEN /\ disk' = Created(name)
               /\ synced' = [n \in DOMAIN disk \cup {name} |->
                               IF n \in DOMAIN disk THEN synced[n] ELSE 0]
               /\ file' = name
          ELSE /\ disk' = disk
               /\ synced' = synced
               /\ file' = NilFile
     /\ pendingFail' = (pendingFail \/ ~ok)
     /\ rolls' = rolls + 1

\* mutation: roll does not take the mutex
rollWithoutMutex(p, now, ok) ==
  /\ mutex' = mutex
  /\ Swap(now, ok)

\* under the mutex: close the old handle, name the new file after the date
\* now that time.Now() returns, open it and install the handle (nil when the
\* open failed)
roll(p, now, ok) ==
  /\ CanLock(p)
  /\ mutex' = Free
  /\ Swap(now, ok)

\* SizeBasedRollingFileLogger.roll: err := rfl.RollingFileLogger.roll() ...
SizedRoll(w) ==
  /\ wr[w].pc = "roll"
  /\ \E now \in today..MaxDay, ok \in BOOLEAN :
       /\ roll(w, now, ok)
       /\ wr' = [wr EXCEPT ![w].err = ~ok, ![w].pc = "reset"]
  /\ UNCHANGED <<eventVars, routeVars, polyVars, cfgVars, running, curCount, tpc, cl, returned>>

\* mutation: the counter is not reset
SizedResetSkipped(w) ==
  /\ wr[w].pc = "reset"
  /\ curCount' = curCount
  /\ Return(w, wr[w].err)
  /\ UNCHANGED <<eventVars, routeVars, polyVars, cfgVars, fileVars, running, pendingFail, rolls, tpc, cl>>

\* ... rfl.curCount = 0; return err
SizedReset(w) ==
  /\ wr[w].pc = "reset"
  /\ curCount' = 0
  /\ Return(w, wr[w].err)
  /\ UNCHANGED <<eventVars, routeVars, polyVars, cfgVars, fileVars, running, pendingFail, rolls, tpc, cl>>

\* ------------------------------------------ the rollEvery / rollNightly task
\* rfl.running = true
TimerStart ==
  /\ tpc = "start"
  /\ running' = TRUE
  /\ tpc' = "loop"
  /\ UNCHANGED <<eventVars, routeVars, polyVars, cfgVars, fileVars, curCount, pendingFail, rolls, wr, cl, returned>>

\* mutation: the loop ends after a roll
rollOnce ==
  /\ tpc = "loop"
  /\ tpc' = IF running /\ rolls = 0 THEN "roll" ELSE "exit"
  /\ UNCHANGED <<eventVars, routeVars, polyVars, cfgVars, fileVars, rollVars, wr, cl, returned>>

\* for rfl.running { rfl.rollIn(duration) }: the test and the Sleep
rollEvery ==
  /\ tpc = "loop"
  /\ running => rolls < MaxRolls
  /\ tpc' = IF running THEN "roll" ELSE "exit"
  /\ UNCHANGED <<eventVars, routeVars, polyVars, cfgVars, fileVars, rollVars, wr, cl, returned>>

\* rollIn: rfl.roll(), the error it returns discarded
rollIn ==
  /\ tpc = "roll"
  /\ \E now \in today..MaxDay, ok \in BOOLEAN : roll(TimerId, now, ok)
  /\ tpc' = "loop"
  /\ UNCHANGED <<eventVars, routeVars, polyVars, cfgVars, running, curCount, wr, cl, returned>>

\* ------------------------------------------------------ the rollNightly task
\* the date of instant t: 1 for the day of construction
DateOf(t) == (t \div UnitsPerDay) + 1

\* time.Date(y, m, d + 1, 0, 0, 0, 1, Location) for the date of now: one
\* clock unit after the next midnight
TomorrowAtMidnight(now) == DateOf(now) * UnitsPerDay + 1

\* mutation: the sleep is one day whatever the time is
getDurationOfOneDay(now) == UnitsPerDay

getDurationUntilTomorrowAtMidnight(now) == TomorrowAtMidnight(now) - now

\* what time.Now() can return after it returned wall
Later == {wall, wall + 1}

\* for rfl.running { rfl.rollIn(getDurationUntilTomorrowAtMidnight()) }: the
\* test, the duration from the time.Now() of this iteration, and the Sleep,
\* which lasts at least that long
rollNightly ==
  /\ tpc = "loop"
  /\ IF running
       THEN \E now \in Later :
              LET d == getDurationUntilTomorrowAtMidnight(now) IN
              /\ rolls < MaxRolls
              /\ DateOf(now) <= MaxNights
              /\ \E woke \in (now + d)..(now + d + MaxLate) :
                   /\ wall' = woke
                   /\ nap' = [at |-> now, d |-> d, woke |-> woke]
              /\ tpc' = "roll"
       ELSE /\ tpc' = "exit"
            /\ UNCHANGED timeVars
  /\ UNCHANGED <<eventVars, routeVars, polyVars, kind, countToRollOn, baseFilePath, budget, scan,
                 fileVars, rollVars, wr, cl, returned>>

\* rollIn after the Sleep: rfl.roll(), which names the file after the date of
\* the time.Now() it reads under the mutex
nightlyRollIn ==
  /\ tpc = "roll"
  /\ \E now \in Later, ok \in BOOLEAN :
       /\ roll(TimerId, DateOf(now), ok)
       /\ wall' = now
  /\ tpc' = "loop"
  /\ UNCHANGED <<eventVars, routeVars, polyVars, kind, countToRollOn, baseFilePath, budget, nap, scan,
                 running, curCount, wr, cl, returned>>

\* ------------------------------------------------------------------ Close
\* FileLogger.Close: l.file.Close()
Close ==
  /\ kind = "file"
  /\ cl.pc = "idle"
  /\ cl.count < MaxCloses
  /\ closed' = CloseHandle(file)
  /\ cl' = [cl EXCEPT !.count = @ + 1, !.rollsAt = rolls]
  /\ UNCHANGED <<eventVars, routeVars, polyVars, cfgVars, mutex, file, logFilePath, disk, synced, today,
                 rollVars, wr, tpc, returned>>

\* RollingFileLogger.Close: rfl.running = false ...
RollingClose ==
  /\ kind # "file"
  /\ cl.pc = "idle"
  /\ cl.count < MaxCloses
  /\ running' = FALSE
  /\ cl' = [cl EXCEPT !.pc = "closeFile"]
  /\ UNCHANGED <<eventVars, routeVars, polyVars, cfgVars, fileVars, curCount, pendingFail, rolls, wr, tpc, returned>>

\* ... rfl.FileLogger.Close()
RollingCloseFile ==
  /\ cl.pc = "closeFile"
  /\ closed' = CloseHandle(file)
  /\ cl' = [pc |-> "idle", count |-> cl.count + 1, rollsAt |-> rolls]
  /\ UNCHANGED <<eventVars, routeVars, polyVars, cfgVars, mutex, file, logFilePath, disk, synced, today,
                 rollVars, wr, tpc, returned>>

\* ------------------------------------------------------- MultiFileLogger
\* a Level is an interface value: the dynamic type and the id it returns
LevelEnums == {[type |-> "LevelEnum", id |-> i] : i \in 0..MaxLevelId}
CustomLevels == {[type |-> "custom", id |-> 0]}
Levels == LevelEnums \cup CustomLevels
NoLevel == [type |-> "none", id |-> 0]
Paths == {"a.log", "b.log"}
DefaultPaths == Paths \cup {"d.log"}
NoEvent == [lvl |-> NoLevel, n |-> 0]

\* the entry of NewMultiFileLogger(paths, defaultLogPath) with paths drawn
\* from ps and defaultLogPath from ds
RouteInitWith(ps, ds) ==
  /\ paths \in ps
  /\ defaultLogPath \in ds
  /\ mpc = "create"
  /\ todo = DOMAIN paths
  /\ cachedLoggers = <<>>
  /\ loggers = <<>>
  /\ defaultLogger = 0
  /\ sinks = <<>>
  /\ rfiles = [f \in DefaultPaths |-> <<>>]
  /\ lastLog = [ev |-> NoEvent, sink |-> 0, got |-> "none", res |-> "none"]
  /\ nlogs = 0
  /\ mcloses = 0

RouteInit == RouteInitWith(UNION {[D -> Paths] : D \in SUBSET LevelEnums}, DefaultPaths)

\* no MultiFileLogger is in use
RouteParked ==
  /\ paths = <<>>
  /\ defaultLogPath = "d.log"
  /\ mpc = "none"
  /\ todo = {}
  /\ cachedLoggers = <<>>
  /\ loggers = <<>>
  /\ defaultLogger = 0
  /\ sinks = <<>>
  /\ rfiles = <<>>
  /\ lastLog = [ev |-> NoEvent, sink |-> 0, got |-> "none", res |-> "none"]
  /\ nlogs = 0
  /\ mcloses = 0

\* f with key k set to v
Put(f, k, v) == [x \in DOMAIN f \cup {k} |-> IF x = k THEN v ELSE f[x]]

\* mutation: the cache of loggers is never hit
NeverCached(path) == 0

\* mutation: the cache returns a logger whatever the path
CachedAny(path) ==
  IF DOMAIN cachedLoggers = {}
    THEN 0
    ELSE cachedLoggers[CHOOSE p \in DOMAIN cachedLoggers : TRUE]

\* logger := cachedLoggers[path], 0 for nil
CachedLogger(path) == IF path \in DOMAIN cachedLoggers THEN cachedLoggers[path] ELSE 0

\* one iteration of createRobustLoggers' range loop, the map's keys coming
\* in any order; loggerConstructor (NewFileLogger) may fail to open the path
createRobustLoggers ==
  /\ mpc = "create"
  /\ \E logLevel \in todo :
       LET path == paths[logLevel]
           logger == CachedLogger(path)
       IN /\ todo' = todo \ {logLevel}
          /\ IF logger # 0
               THEN /\ loggers' = Put(loggers, logLevel, logger)
                    /\ UNCHANGED <<cachedLoggers, sinks, mpc>>
               ELSE \E ok \in BOOLEAN :
                      IF ok
                        THEN /\ sinks' = Append(sinks, [path |-> path, closes |-> 0, calls |-> 0])
                             /\ cachedLoggers' = Put(cachedLoggers, path, Len(sinks) + 1)
                             /\ loggers' = Put(loggers, logLevel, Len(sinks) + 1)
                             /\ mpc' = mpc
                        ELSE /\ mpc' = "failed"
                             /\ UNCHANGED <<cachedLoggers, loggers, sinks>>
  /\ UNCHANGED <<eventVars, sinkVars, polyVars, paths, defaultLogPath, defaultLogger, rfiles,
                 lastLog, nlogs, mcloses>>

\* after the loop: defaultLogger, err := NewFileLogger(defaultLogPath)
NewMultiFileLogger ==
  /\ mpc = "create"
  /\ todo = {}
  /\ \E ok \in BOOLEAN :
       IF ok
         THEN /\ sinks' = Append(sinks, [path |-> defaultLogPath, closes |-> 0, calls |-> 0])
              /\ defaultLogger' = Len(sinks) + 1
              /\ mpc' = "built"
         ELSE /\ mpc' = "failed"
              /\ UNCHANGED <<sinks, defaultLogger>>
  /\ UNCHANGED <<eventVars, sinkVars, polyVars, paths, defaultLogPath, todo, cachedLoggers,
                 loggers, rfiles, lastLog, nlogs, mcloses>>

\* mutation: every event goes to the default logger
TargetDefault(ev) == defaultLogger

\* the logger MultiFileLogger.Log picks: mfl.loggers[level] when the error is
\* leveled and that entry is not nil, mfl.defaultLogger otherwise
Target(ev) ==
  IF ev.lvl # NoLevel /\ ev.lvl \in DOMAIN loggers /\ loggers[ev.lvl] # 0
    THEN loggers[ev.lvl]
    ELSE defaultLogger

\* MultiFileLogger.Log(errToLog): return logger.Log(errToLog), which fails
\* once the logger's file is closed
MultiLog ==
  /\ mpc = "built"
  /\ nlogs < budget
  /\ \E lvl \in Levels \cup DOMAIN paths \cup {NoLevel} :
       LET ev == [lvl |-> lvl, n |-> nlogs + 1]
           t == Target(ev)
           got == IF sinks[t].closes > 0 THEN "err" ELSE "ok"
           res == got
       IN /\ sinks' = [sinks EXCEPT ![t].calls = @ + 1]
          /\ rfiles' = IF res = "ok"
                         THEN [rfiles EXCEPT ![sinks[t].path] = Append(@, ev)]
                         ELSE rfiles
          /\ lastLog' = [ev |-> ev, sink |-> t, got |-> got, res |-> res]
  /\ nlogs' = nlogs + 1
  /\ UNCHANGED <<eventVars, sinkVars, polyVars, paths, defaultLogPath, mpc, todo, cachedLoggers,
                 loggers, defaultLogger, mcloses>>

\* the number of Close calls MultiFileLogger.Close makes on logger i: one per
\* entry of mfl.loggers that holds it, and one if it is the default logger
CloseCalls(i) ==
  Cardinality({l \in DOMAIN loggers : loggers[l] = i}) + (IF i = defaultLogger THEN 1 ELSE 0)

\* MultiFileLogger.Close
MultiClose ==
  /\ mpc = "built"
  /\ mcloses < MaxCloses
  /\ sinks' = [i \in DOMAIN sinks |-> [sinks[i] EXCEPT !.closes = @ + CloseCalls(i)]]
  /\ mcloses' = mcloses + 1
  /\ UNCHANGED <<eventVars, sinkVars, polyVars, paths, defaultLogPath, mpc, todo, cachedLoggers,
                 loggers, defaultLogger, rfiles, lastLog, nlogs>>

\* ------------------------------------------------------------ PolyLogger
Members == 1..NumMembers
PCallers == 1..NumCallers

PolyInit ==
  /\ ploggers \in [Members -> {"ok", "fail"}]
  /\ phandler \in BOOLEAN
  /\ wgCounter = 0
  /\ wgWaiters = 0
  /\ wgSema = 0
  /\ pcl = [c \in PCallers |-> [pc |-> "idle", i |-> 1, n |-> 0, res |-> "none"]]
  /\ ptask = [c \in PCallers |-> [m \in Members |-> "none"]]
  /\ pinvoked = [c \in PCallers |-> [m \in Members |-> 0]]
  /\ phandled = [c \in PCallers |-> [m \in Members |-> 0]]
  /\ preceived = [m \in Members |-> {}]
  /\ ppanic = FALSE
  /\ pclose = [pc |-> "idle", i |-> 1, n |-> 0,
               pending |-> [m \in Members |-> 0], closes |-> [m \in Members |-> 0]]

\* no PolyLogger is in use
PolyParked ==
  /\ ploggers = <<>>
  /\ phandler = FALSE
  /\ wgCounter = 0
  /\ wgWaiters = 0
  /\ wgSema = 0
  /\ pcl = <<>>
  /\ ptask = <<>>
  /\ pinvoked = <<>>
  /\ phandled = <<>>
  /\ preceived = <<>>
  /\ ppanic = FALSE
  /\ pclose = <<>>

NoOp == [op |-> "none", arg |-> 0, res |-> 0, lvl |-> NoLevel, was |-> NoLevel]

\* no exception is in use
EventParked ==
  /\ events = <<>>
  /\ calls = <<>>
  /\ outs = <<>>
  /\ clock = 0
  /\ lastOp = NoOp
  /\ eops = 0
  /\ rt = <<>>
  /\ plogs = 0
  /\ prepended = <<>>

PolyCalls ==
  Sum([c \in PCallers |-> pcl[c].n + (IF pcl[c].pc = "idle" THEN 0 ELSE 1)], PCallers)

\* the calling goroutines are interchangeable: they are numbered in the order
\* of their first call
PolyInOrder(c) ==
  \A d \in PCallers : d < c => pcl[d].n > 0 \/ pcl[d].pc # "idle"

\* a goroutine enters PolyLogger.Log(errToLog)
PolyLog(c) ==
  /\ ~ppanic
  /\ pcl[c].pc = "idle"
  /\ PolyCalls < budget
  /\ PolyInOrder(c)
  /\ pcl' = [pcl EXCEPT ![c] = [pc |-> "add", i |-> 1, n |-> pcl[c].n, res |-> "none"]]
  /\ ptask' = [ptask EXCEPT ![c] = [m \in Members |-> "none"]]
  /\ pinvoked' = [pinvoked EXCEPT ![c] = [m \in Members |-> 0]]
  /\ phandled' = [phandled EXCEPT ![c] = [m \in Members |-> 0]]
  /\ UNCHANGED <<eventVars, sinkVars, routeVars, pclose, ploggers, phandler, wgCounter, wgWaiters,
                 wgSema, preceived, ppanic>>

\* one iteration of the range loop: p.waitGroup.Add(1);
\* go p.runLoggerWithFail(logger.Log, errToLog)
PolyDispatch(c) ==
  /\ ~ppanic
  /\ pcl[c].pc = "add"
  /\ wgCounter' = wgCounter + 1
  /\ ptask' = [ptask EXCEPT ![c][pcl[c].i] = "run"]
  /\ pcl' = [pcl EXCEPT ![c].i = @ + 1,
                        ![c].pc = IF pcl[c].i < NumMembers THEN "add" ELSE "wait"]
  /\ UNCHANGED <<eventVars, sinkVars, routeVars, pclose, ploggers, phandler, wgWaiters, wgSema,
                 pinvoked, phandled, preceived, ppanic>>

\* mutation: Wait returns at once
PolyWaitSkipped(c) ==
  /\ ~ppanic
  /\ pcl[c].pc = "wait"
  /\ pcl' = [pcl EXCEPT ![c].pc = "idle", ![c].n = @ + 1, ![c].res = "nil"]
  /\ UNCHANGED <<eventVars, sinkVars, routeVars, pclose, ploggers, phandler, wgCounter, wgWaiters,
                 wgSema, ptask, pinvoked, phandled, preceived, ppanic>>

\* p.waitGroup.Wait(): return nil at once when the counter is 0, park otherwise
PolyWait(c) ==
  /\ ~ppanic
  /\ pcl[c].pc = "wait"
  /\ IF wgCounter = 0
       THEN /\ pcl' = [pcl EXCEPT ![c].pc = "idle", ![c].n = @ + 1, ![c].res = "nil"]
            /\ wgWaiters' = wgWaiters
       ELSE /\ pcl' = [pcl EXCEPT ![c].pc = "parked"]
            /\ wgWaiters' = wgWaiters + 1
  /\ UNCHANGED <<eventVars, sinkVars, routeVars, pclose, ploggers, phandler, wgCounter,
                 wgSema, ptask, pinvoked, phandled, preceived, ppanic>>

\* the parked Wait is woken: it panics ("WaitGroup is reused before previous
\* Wait has returned") when the WaitGroup is in use again, else Log returns nil
PolyWake(c) ==
  /\ ~ppanic
  /\ pcl[c].pc = "parked"
  /\ wgSema > 0
  /\ wgSema' = wgSema - 1
  /\ IF wgCounter # 0 \/ wgWaiters # 0
       THEN /\ ppanic' = TRUE
            /\ pcl' = [pcl EXCEPT ![c].pc = "panicked"]
       ELSE /\ ppanic' = ppanic
            /\ pcl' = [pcl EXCEPT ![c].pc = "idle", ![c].n = @ + 1, ![c].res = "nil"]
  /\ UNCHANGED <<eventVars, sinkVars, routeVars, pclose, ploggers, phandler, wgCounter, wgWaiters,
                 ptask, pinvoked, phandled, preceived>>

\* p.waitGroup.Add(-1): the goroutine that brings the counter to 0 wakes
\* every parked Wait
WaitGroupDone ==
  /\ wgCounter' = wgCounter - 1
  /\ IF wgCounter = 1 /\ wgWaiters > 0
       THEN /\ wgSema' = wgSema + wgWaiters
            /\ wgWaiters' = 0
       ELSE UNCHANGED <<wgSema, wgWaiters>>

\* mutation: the handler is called whatever logFunc returned
runLoggerAlwaysFail(c, m) ==
  /\ ~ppanic
  /\ ptask[c][m] = "run"
  /\ pinvoked' = [pinvoked EXCEPT ![c][m] = @ + 1]
  /\ preceived' = IF ploggers[m] = "ok"
                    THEN [preceived EXCEPT ![m] = @ \cup {<<c, pcl[c].n + 1>>}]
                    ELSE preceived
  /\ phandled' = IF phandler THEN [phandled EXCEPT ![c][m] = @ + 1] ELSE phandled
  /\ ptask' = [ptask EXCEPT ![c][m] = "done"]
  /\ WaitGroupDone
  /\ UNCHANGED <<eventVars, sinkVars, routeVars, pclose, ploggers, phandler, pcl, ppanic>>

\* runLoggerWithFail: defer p.waitGroup.Add(-1); err := logFunc(loggable);
\* if err != nil && p.handleLoggerFail != nil { p.handleLoggerFail(err) }
\* The goroutine shares nothing but the WaitGroup, so it is one step.
runLoggerWithFail(c, m) ==
  /\ ~ppanic
  /\ ptask[c][m] = "run"
  /\ pinvoked' = [pinvoked EXCEPT ![c][m] = @ + 1]
  /\ preceived' = IF ploggers[m] = "ok"
                    THEN [preceived EXCEPT ![m] = @ \cup {<<c, pcl[c].n + 1>>}]
                    ELSE preceived
  /\ phandled' = IF ploggers[m] = "fail" /\ phandler
                   THEN [phandled EXCEPT ![c][m] = @ + 1]
                   ELSE phandled
  /\ ptask' = [ptask EXCEPT ![c][m] = "done"]
  /\ WaitGroupDone
  /\ UNCHANGED <<eventVars, sinkVars, routeVars, pclose, ploggers, phandler, pcl, ppanic>>

\* -------------------------------------------------------- PolyLogger.Close
\* mutation: Close calls logger.Close() itself, without go
CloseInline(m) == [pclose EXCEPT !.closes[m] = @ + 1]

\* go logger.Close(): a goroutine that will call the member's Close
GoClose(m) == [pclose EXCEPT !.pending[m] = @ + 1]

\* PolyLogger.Close is called
PolyClose ==
  /\ pclose.pc = "idle"
  /\ pclose.n < MaxPolyCloses
  /\ pclose' = [pclose EXCEPT !.pc = "range", !.i = 1]
  /\ UNCHANGED <<eventVars, sinkVars, routeVars, ploggers, phandler, wgCounter, wgWaiters,
                 wgSema, pcl, ptask, pinvoked, phandled, preceived, ppanic>>

\* one iteration of for _, logger := range p.Loggers { go logger.Close() },
\* or the return after the last one
PolyCloseDispatch ==
  /\ pclose.pc = "range"
  /\ pclose' = IF pclose.i <= NumMembers
                 THEN [GoClose(pclose.i) EXCEPT !.i = pclose.i + 1]
                 ELSE [pclose EXCEPT !.pc = "idle", !.n = @ + 1]
  /\ UNCHANGED <<eventVars, sinkVars, routeVars, ploggers, phandler, wgCounter, wgWaiters,
                 wgSema, pcl, ptask, pinvoked, phandled, preceived, ppanic>>

\* a goroutine started by Close runs: logger.Close()
MemberClose(m) ==
  /\ pclose.pending[m] > 0
  /\ pclose' = [pclose EXCEPT !.pending[m] = @ - 1, !.closes[m] = @ + 1]
  /\ UNCHANGED <<eventVars, sinkVars, routeVars, ploggers, phandler, wgCounter, wgWaiters,
                 wgSema, pcl, ptask, pinvoked, phandled, preceived, ppanic>>

\* --------------------------------------------------------- specifications
\* one FileLogger, concurrent writers and a Close
FileNext ==
  \/ \E w \in Writers : Lock(w)
  \/ \E w \in Writers : Render(w)
  \/ \E w \in Writers : Separator(w)
  \/ \E w \in Writers : Sync(w)
  \/ \E w \in Writers : LogReturn(w)
  \/ Close

FileInit == SinkInit("file", Writers) /\ RouteParked /\ PolyParked /\ EventParked

SpecFile == FileInit /\ [][FileNext]_vars

\* one FileLogger, concurrent writers calling Log, LogNoStack and LogJson
ModesNext ==
  \/ FileNext
  \/ \E w \in Writers : LogJson(w)

ModesInit == SinkInit("file", Writers) /\ RouteParked /\ PolyParked /\ EventParked

SpecModes == ModesInit /\ [][ModesNext]_vars

\* one timer driven RollingFileLogger and concurrent writers
TimedNext ==
  \/ \E w \in Writers : Lock(w)
  \/ \E w \in Writers : Render(w)
  \/ \E w \in Writers : Separator(w)
  \/ \E w \in Writers : Sync(w)
  \/ \E w \in Writers : LogReturn(w)
  \/ TimerStart
  \/ rollEvery
  \/ rollIn

TimedInit == SinkInit("timed", Writers) /\ RouteParked /\ PolyParked /\ EventParked

SpecTimed == TimedInit /\ [][TimedNext]_vars

\* a step of a Log call that has the mutex
Writing(w) == Render(w) \/ Separator(w) \/ Sync(w) \/ LogReturn(w)

\* rollIn can take its step: the timer goroutine is in roll's mutex.Lock() and
\* the mutex is free
RollReady == tpc = "roll" /\ CanLock(TimerId)

\* one timer driven RollingFileLogger and one writer under the scheduler: a goroutine that can run does run, a Log call
\* that has the mutex goes on to release it, and a goroutine waiting in
\* mutex.Lock() gets the mutex when it is released again and again (sync.Mutex
\* hands it to a starving waiter: strong fairness of rollIn, written with
\* RollReady for ENABLED); the callers may stop calling Log at any time
FairInit == SinkInit("timed", {1}) /\ RouteParked /\ PolyParked /\ EventParked

SpecTimedFair ==
  /\ FairInit
  /\ [][TimedNext]_vars
  /\ WF_vars(TimerStart)
  /\ WF_vars(rollEvery)
  /\ ([]<>RollReady => []<><<rollIn>>_vars)
  /\ \A w \in Writers : WF_vars(Writing(w))

\* one RollingFileLogger of NewNightlyRollingFileLogger and a writer
NightlyNext ==
  \/ \E w \in Writers : Lock(w)
  \/ \E w \in Writers : Render(w)
  \/ \E w \in Writers : Separator(w)
  \/ \E w \in Writers : Sync(w)
  \/ \E w \in Writers : LogReturn(w)
  \/ TimerStart
  \/ rollNightly
  \/ nightlyRollIn

NightlyInit == SinkInit("nightly", {1}) /\ RouteParked /\ PolyParked /\ EventParked

SpecNightly == NightlyInit /\ [][NightlyNext]_vars

\* one timer driven RollingFileLogger, concurrent writers and a Close
TimedCloseNext ==
  \/ \E w \in Writers : Lock(w)
  \/ \E w \in Writers : Render(w)
  \/ \E w \in Writers : Separator(w)
  \/ \E w \in Writers : Sync(w)
  \/ \E w \in Writers : LogReturn(w)
  \/ TimerStart
  \/ rollEvery
  \/ rollIn
  \/ RollingClose
  \/ RollingCloseFile

SpecTimedClose == TimedInit /\ [][TimedCloseNext]_vars

\* one timer driven RollingFileLogger on any of the base paths, rolling
BasePaths == {BaseFilePath, <<"x">>, <<"a", "(", "b", ")", ".log">>}

NamingInit == SinkInitWith("timed", {}, BasePaths, 0) /\ RouteParked /\ PolyParked /\ EventParked

NamingNext ==
  \/ TimerStart
  \/ rollEvery
  \/ rollIn

SpecNaming == NamingInit /\ [][NamingNext]_vars

\* one SizeBasedRollingFileLogger, concurrent writers and a Close
SizedNext ==
  \/ \E w \in Writers : Lock(w)
  \/ \E w \in Writers : Render(w)
  \/ \E w \in Writers : Separator(w)
  \/ \E w \in Writers : Sync(w)
  \/ \E w \in Writers : LogReturn(w)
  \/ \E w \in Writers : IncLoad(w)
  \/ \E w \in Writers : IncStore(w)
  \/ \E w \in Writers : incAndRollIfNecessary(w)
  \/ \E w \in Writers : SizedRoll(w)
  \/ \E w \in Writers : SizedReset(w)
  \/ RollingClose
  \/ RollingCloseFile

SizedInit == SinkInit("sized", Writers) /\ RouteParked /\ PolyParked /\ EventParked

SpecSized == SizedInit /\ [][SizedNext]_vars

\* one SizeBasedRollingFileLogger used by a single goroutine
SeqInit == SinkInit("sized", {1}) /\ RouteParked /\ PolyParked /\ EventParked

SpecSeq == SeqInit /\ [][SizedNext]_vars

\* one SizeBasedRollingFileLogger used by a single goroutine for a longer run
LongNext ==
  \/ \E w \in Writers : Lock(w)
  \/ \E w \in Writers : Render(w)
  \/ \E w \in Writers : Separator(w)
  \/ \E w \in Writers : Sync(w)
  \/ \E w \in Writers : LogReturn(w)
  \/ \E w \in Writers : IncLoad(w)
  \/ \E w \in Writers : IncStore(w)
  \/ \E w \in Writers : incAndRollIfNecessary(w)
  \/ \E w \in Writers : SizedRoll(w)
  \/ \E w \in Writers : SizedReset(w)

LongInit ==
  SinkInitWith("sized", {1}, {BaseFilePath}, MaxSeqWrites) /\ RouteParked /\ PolyParked /\
  EventParked

SpecLong == LongInit /\ [][LongNext]_vars

\* no file logger of its own is in use; the callers make n calls
\* no logger is in use and scanning is in the state sc
SinkParkedAt(n, sc) ==
  /\ kind = "none"
  /\ budget = n
  /\ wall = 0
  /\ nap = NoNap
  /\ scan = sc
  /\ baseFilePath = NilFile
  /\ countToRollOn = 0
  /\ mutex = Free
  /\ file = NilFile
  /\ logFilePath = NilFile
  /\ running = FALSE
  /\ curCount = 0
  /\ disk = <<>>
  /\ closed = {}
  /\ synced = <<>>
  /\ today = 1
  /\ wr = <<>>
  /\ tpc = "none"
  /\ cl = [pc |-> "idle", count |-> 0, rollsAt |-> 0]
  /\ returned = {}
  /\ pendingFail = FALSE
  /\ rolls = 0

SinkParked(n) == SinkParkedAt(n, NoScan)

\* NewMultiFileLogger, then Log and Close calls on the logger it returned
RouteNext ==
  \/ createRobustLoggers
  \/ NewMultiFileLogger
  \/ MultiLog
  \/ MultiClose

RoutedInit == SinkParked(MaxLogs) /\ RouteInit /\ PolyParked /\ EventParked

SpecRoute == RoutedInit /\ [][RouteNext]_vars

\* NewMultiFileLogger on three levels, two of them sharing a path, and a
\* default path of its own; then Log and Close calls
EnumCritical == 0
EnumError == 1
EnumWarning == 3
LevelOf(i) == [type |-> "LevelEnum", id |-> i]
ThreeLevelPaths ==
  [l \in {LevelOf(EnumCritical), LevelOf(EnumError), LevelOf(EnumWarning)} |->
     IF l = LevelOf(EnumWarning) THEN "b.log" ELSE "a.log"]

ThreeLevelInit ==
  SinkParked(MaxThreeLevelLogs) /\ RouteInitWith({ThreeLevelPaths}, {"d.log"}) /\ PolyParked /\
  EventParked

SpecThreeLevel == ThreeLevelInit /\ [][RouteNext]_vars

\* one PolyLogger, goroutines calling Log concurrently
PolyNext ==
  \/ \E c \in PCallers : PolyLog(c)
  \/ \E c \in PCallers : PolyDispatch(c)
  \/ \E c \in PCallers : PolyWait(c)
  \/ \E c \in PCallers : PolyWake(c)
  \/ \E c \in PCallers, m \in Members : runLoggerWithFail(c, m)

FanOutInit == SinkParked(MaxPolyLogs) /\ RouteParked /\ PolyInit /\ EventParked

SpecPoly == FanOutInit /\ [][PolyNext]_vars

\* base stamped with the date of day 1, as getTimestampedFileName does
Stamped(base) ==
  Prefix(base, Len(base) - Len(Ext(base))) \o <<DateToks[1]>> \o Ext(base)

ScanNames == UNION {Tried(Stamped(base), MaxExisting) : base \in BasePaths}

\* incFileNameUntilNotExists on a stamped name, among any files with the names
\* it may try, in a directory that lets os.Stat look or not
ScanInit ==
  /\ \E base \in BasePaths, ex \in SUBSET ScanNames, d \in BOOLEAN :
       /\ ex \subseteq Tried(Stamped(base), MaxExisting)
       /\ SinkParkedAt(0, [pc |-> "test", from |-> Stamped(base), name |-> Stamped(base),
                           incs |-> 0, fs |-> [n \in ex |-> <<>>], denied |-> d])
  /\ RouteParked
  /\ PolyParked
  /\ EventParked

ScanNext == ScanStep

SpecScan == ScanInit /\ [][ScanNext]_vars

\* one PolyLogger and a goroutine calling Close
FanCloseNext ==
  \/ PolyClose
  \/ PolyCloseDispatch
  \/ \E m \in Members : MemberClose(m)

FanCloseInit == SinkParked(0) /\ RouteParked /\ PolyInit /\ EventParked

SpecFanClose == FanCloseInit /\ [][FanCloseNext]_vars

\* ------------------------------------------------------------- exceptions
EventLevels == {LevelOf(EnumCritical), LevelOf(EnumError)}
Sites == {"siteA", "siteB"}
Msg == <<"m">>
Torn == <<"torn">>
NoCalls == [asked |-> 0, built |-> 0]
Resting == [pc |-> "idle", e |-> 0, str |-> <<>>, out |-> <<>>]

\* the frames runtime.Callers reports for a call made at site, innermost first
CallStack(site) == <<site, "main">>

getStackTrace(site, maxStackTraceSize) ==
  SubSeq(CallStack(site), 1,
         IF maxStackTraceSize < Len(CallStack(site)) THEN maxStackTraceSize
         ELSE Len(CallStack(site)))

RECURSIVE stackTraceAsString(_)
stackTraceAsString(stackTrace) ==
  IF stackTrace = <<>> THEN <<>>
  ELSE <<"\t", Head(stackTrace), "\n">> \o stackTraceAsString(Tail(stackTrace))

levelLabels(level) ==
  IF level = LevelOf(EnumCritical) THEN "CRITICAL"
  ELSE IF level = LevelOf(EnumError) THEN "ERROR"
  ELSE "OTHER"

newStdException(message, stackTraceNumLines, site, now) ==
  [typ |-> "std", level |-> NoLevel,
   stackTrace |-> getStackTrace(site, stackTraceNumLines),
   stackTraceStr |-> <<>>,
   maxStackTraceSize |-> stackTraceNumLines,
   message |-> message,
   timestamp |-> now,
   messageChain |-> <<>>]

newLeveledException(message, level, maxStackTraceDepth, site, now) ==
  [newStdException(message, maxStackTraceDepth, site, now)
     EXCEPT !.typ = "leveled", !.level = level]

\* GetStackTraceAsString without its cache
GetStackTraceUncached(se) == se

\* the exception after GetStackTraceAsString; the call returns its stackTraceStr
GetStackTraceAsString(se) ==
  IF se.stackTraceStr = <<>>
    THEN [se EXCEPT !.stackTraceStr = stackTraceAsString(se.stackTrace)]
    ELSE se

\* the string GetStackTraceAsString returns on se
StackString(se) ==
  IF se.stackTraceStr = <<>> THEN stackTraceAsString(se.stackTrace)
  ELSE se.stackTraceStr

\* the history of one more call of GetStackTraceAsString on se
Asked(c, se) ==
  [asked |-> c.asked + 1,
   built |-> c.built + (IF se.stackTraceStr = <<>> THEN 1 ELSE 0)]

LogNoStack(se) ==
  LET chain == [i \in 1..Len(se.messageChain) |-> <<se.messageChain[i], "\nCaused by:\n">>]
      Flat[i \in 0..Len(chain)] == IF i = 0 THEN <<>> ELSE Flat[i - 1] \o chain[i]
  IN Flat[Len(chain)] \o <<se.timestamp, " - ">>
       \o (IF se.typ = "leveled" THEN <<levelLabels(se.level), " - ">> ELSE <<>>)
       \o se.message

\* StdException.Error and LeveledException.Error
Error(se) ==
  <<" - ">> \o (IF se.typ = "leveled" THEN <<levelLabels(se.level), " - ">> ELSE <<>>)
    \o se.message \o <<":\n">> \o StackString(se)

SetLevel(le, level) == [le EXCEPT !.level = level]

\* errorToLeveledError that never recognises a *LeveledException
errorToLeveledErrorAnew(heap, e, level, site, now) ==
  [heap |-> Append([heap EXCEPT ![e] = GetStackTraceAsString(heap[e])],
                   newLeveledException(Error(heap[e]), level, defaultStackTraceDepth, site, now)),
   res |-> Len(heap) + 1]

\* errorToLeveledError(err, level, skip) on the exception heap[e], called at
\* site at time now: the exceptions afterwards and the one returned
errorToLeveledError(heap, e, level, site, now) ==
  IF heap[e].typ = "leveled"
    THEN [heap |-> [heap EXCEPT ![e] = SetLevel(heap[e], level)], res |-> e]
    ELSE [heap |-> Append([heap EXCEPT ![e] = GetStackTraceAsString(heap[e])],
                          newLeveledException(Error(heap[e]), level,
                                              defaultStackTraceDepth, site, now)),
          res |-> Len(heap) + 1]

\* the depths the callers ask for: no frame, one frame, the default
Depths == {0, 1, defaultStackTraceDepth}

\* the exceptions NewStdException, NewStdExceptionWithStackTraceSize,
\* NewLeveledException and NewLeveledExceptionWithStackTraceSize return at time 1
\* to a caller at siteA
Fresh ==
  {newStdException(Msg, n, "siteA", 1) : n \in Depths}
    \cup {newLeveledException(Msg, level, n, "siteA", 1) :
            level \in EventLevels, n \in Depths}

\* what time.Now() can return after it returned clock
Nows == {t \in {clock, clock + 1} : t <= MaxClock}

EventInit ==
  /\ events \in {<<se>> : se \in Fresh}
  /\ calls = <<NoCalls>>
  /\ outs = <<{}>>
  /\ clock = 1
  /\ lastOp = NoOp
  /\ eops = 0
  /\ rt = [m \in Members |-> Resting]
  /\ plogs = 0
  /\ prepended = <<<<>>>>

Op(op, arg, res, lvl, was) == [op |-> op, arg |-> arg, res |-> res, lvl |-> lvl, was |-> was]

\* AsCritical(err) ... AsDebug(err) with the one value events[e]
graduateOrConcatAndCreate(level, e, site) ==
  /\ eops < MaxEventOps
  /\ e \in DOMAIN events
  /\ \E now \in Nows :
       LET r == errorToLeveledError(events, e, level, site, now) IN
       /\ Len(r.heap) <= MaxEvents
       /\ events' = r.heap
       /\ calls' = IF r.res = e THEN calls
                   ELSE Append([calls EXCEPT ![e] = Asked(calls[e], events[e])], NoCalls)
       /\ outs' = IF r.res = e THEN outs ELSE Append(outs, {})
       /\ prepended' = IF r.res = e THEN prepended ELSE Append(prepended, <<>>)
       /\ lastOp' = Op("promote", e, r.res, level, events[e].level)
       /\ clock' = IF r.res = e THEN clock ELSE now
  /\ eops' = eops + 1
  /\ UNCHANGED <<sinkVars, routeVars, polyVars, rt, plogs>>

\* the messages callers prepend
Causes == {"p", "q"}

\* mutation: the message is put at the end of the chain
appendMsg(se, msg) == [se EXCEPT !.messageChain = @ \o <<msg>>]

\* StdException.prependMsg
prependTo(se, msg) == [se EXCEPT !.messageChain = <<msg>> \o @]

\* PrependMsg(err, msg) on an exception
prependMsg(e, msg) ==
  /\ eops < MaxEventOps
  /\ e \in DOMAIN events
  /\ Len(events[e].messageChain) < MaxChain
  /\ \E now \in Nows :
       /\ events' = [events EXCEPT ![e] = prependTo(@, <<now, " - ", msg>>)]
       /\ clock' = now
  /\ prepended' = [prepended EXCEPT ![e] = Append(@, msg)]
  /\ lastOp' = Op("prepend", e, e, NoLevel, NoLevel)
  /\ eops' = eops + 1
  /\ UNCHANGED <<sinkVars, routeVars, polyVars, calls, outs, rt, plogs>>

\* StdException.Log and LeveledException.Log on se, whose GetStackTraceAsString
\* returns str: all that is written
Log(se, str) == LogNoStack(se) \o <<":\n">> \o str

\* StdException.LogNoStack and LeveledException.LogNoStack by one goroutine
ExceptionLogNoStack(e) ==
  /\ eops < MaxEventOps
  /\ e \in DOMAIN events
  /\ outs' = [outs EXCEPT ![e] = @ \cup {<<"compact", <<>>, LogNoStack(events[e])>>}]
  /\ lastOp' = Op("compact", e, e, NoLevel, NoLevel)
  /\ eops' = eops + 1
  /\ UNCHANGED <<sinkVars, routeVars, polyVars, prepended, events, calls, clock, rt, plogs>>

\* StdException.Log and LeveledException.Log by one goroutine
ExceptionLog(e) ==
  /\ eops < MaxEventOps
  /\ e \in DOMAIN events
  /\ events' = [events EXCEPT ![e] = GetStackTraceAsString(@)]
  /\ calls' = [calls EXCEPT ![e] = Asked(@, events[e])]
  /\ outs' = [outs EXCEPT ![e] = @ \cup {<<"full", StackString(events'[e]),
                                           Log(events[e], StackString(events'[e]))>>}]
  /\ lastOp' = Op("log", e, e, NoLevel, NoLevel)
  /\ eops' = eops + 1
  /\ UNCHANGED <<sinkVars, routeVars, polyVars, prepended, clock, rt, plogs>>

\* StdException.LogAsJson and LeveledException.LogAsJson by one goroutine
ExceptionLogAsJson(e) ==
  /\ eops < MaxEventOps
  /\ e \in DOMAIN events
  /\ events' = [events EXCEPT ![e] = GetStackTraceAsString(@)]
  /\ calls' = [calls EXCEPT ![e] = Asked(@, events[e])]
  /\ outs' = [outs EXCEPT ![e] = @ \cup {<<"json", StackString(events'[e])>>}]
  /\ lastOp' = Op("json", e, e, NoLevel, NoLevel)
  /\ eops' = eops + 1
  /\ UNCHANGED <<sinkVars, routeVars, polyVars, prepended, clock, rt, plogs>>

\* exceptions made, promoted and rendered by one goroutine
EventNext ==
  \/ \E level \in EventLevels, e \in 1..MaxEvents, site \in Sites :
       graduateOrConcatAndCreate(level, e, site)
  \/ \E e \in 1..MaxEvents, msg \in {"p"} : prependMsg(e, msg)
  \/ \E e \in 1..MaxEvents : ExceptionLog(e)
  \/ \E e \in 1..MaxEvents : ExceptionLogAsJson(e)

OneThreadInit == SinkParked(0) /\ RouteParked /\ PolyParked /\ EventInit

SpecEvent == OneThreadInit /\ [][EventNext]_vars

\* exceptions given causes and rendered by one goroutine
ChainNext ==
  \/ \E e \in 1..MaxEvents, msg \in Causes : prependMsg(e, msg)
  \/ \E e \in 1..MaxEvents : ExceptionLogNoStack(e)
  \/ \E e \in 1..MaxEvents : ExceptionLog(e)

ChainInit == SinkParked(0) /\ RouteParked /\ PolyParked /\ EventInit

SpecChain == ChainInit /\ [][ChainNext]_vars

\* the *LeveledException graduateOrConcatAndCreate(level, values...) returns
\* for the one value nil: values[0].(error) does not hold for the nil
\* interface and err == nil, so it returns nil; 0 stands for the nil pointer
NilException == 0

\* rfl.Critical(nil) ... rfl.Debug(nil): rfl.Log(graduateOrConcatAndCreate(level, nil)).
\* The nil *LeveledException becomes a non-nil error, FileLogger.Log finds it
\* to be a Loggable and log takes the mutex and calls its Log method
Critical(w) ==
  /\ kind = "sized"
  /\ wr[w].pc = "idle"
  /\ Calls < budget
  /\ InOrder(w)
  /\ CanLock(w)
  /\ mutex' = w
  /\ pendingFail' = FALSE
  /\ \E level \in EventLevels :
       lastOp' = Op("helper", NilException, NilException, level, NoLevel)
  /\ wr' = [wr EXCEPT ![w] = [@ EXCEPT !.ev = "nil", !.file = file, !.at = file,
                                       !.pc = "deref"]]
  /\ UNCHANGED <<routeVars, polyVars, cfgVars, file, logFilePath, disk, closed, synced, today,
                 running, curCount, rolls, tpc, cl, returned, events, calls, outs, clock,
                 eops, rt, plogs, prepended>>

\* (*LeveledException).Log -> LogNoStack: range le.messageChain on the nil
\* receiver is a nil pointer dereference; the panic runs the deferred
\* mutex.Unlock() and leaves Log, Critical and their caller
LogOnNil(w) ==
  /\ wr[w].pc = "deref"
  /\ mutex' = Free
  /\ wr' = [wr EXCEPT ![w].pc = "panicked"]
  /\ UNCHANGED <<eventVars, routeVars, polyVars, cfgVars, file, logFilePath, disk, closed, synced,
                 today, rollVars, tpc, cl, returned>>

\* one goroutine logging to a SizeBasedRollingFileLogger, also through the
\* level helpers with a single nil argument
NilNext ==
  \/ SizedNext
  \/ \E w \in Writers : Critical(w)
  \/ \E w \in Writers : LogOnNil(w)

NilInit == SinkInit("sized", {1}) /\ RouteParked /\ PolyParked /\ EventParked

SpecNil == NilInit /\ [][NilNext]_vars

\* ---------------------------------------------------------- getStackTrace
\* the stack when getStackTrace calls runtime.Callers, innermost first, for
\* a constructor called at site
RuntimeStack(site) ==
  <<"runtime.Callers", "getStackTrace", "newStdException",
    "NewStdExceptionWithStackTraceSize">> \o CallStack(site)

\* programCounters after runtime.Callers(skip, programCounters) on the slice
\* of length n: the callers above skip, the rest left 0 (no function: "")
programCounters(skip, n, site) ==
  [i \in 1..n |-> IF skip + i <= Len(RuntimeStack(site))
                    THEN RuntimeStack(site)[skip + i] ELSE ""]

\* the loop over framePtr.Next(): it returns at the first frame without a
\* Function
RECURSIVE framesOf(_)
framesOf(pcs) ==
  IF pcs = <<>> \/ Head(pcs) = "" THEN <<>> ELSE <<Head(pcs)>> \o framesOf(Tail(pcs))

\* getStackTrace(skip, maxStackTraceSize): make([]uintptr, maxStackTraceSize)
\* panics on a negative length
getStackTraceAbove(skip, maxStackTraceSize, site) ==
  IF maxStackTraceSize < 0
    THEN [panic |-> TRUE, stackTrace |-> <<>>]
    ELSE [panic |-> FALSE,
          stackTrace |-> framesOf(programCounters(skip, maxStackTraceSize, site))]

\* the depths callers ask for, a negative one among them
CaptureDepths == Depths \cup {-1, 3}

\* newStdException(message, stackTraceNumLines, skip), called once, at site
newStdExceptionCall(stackTraceNumLines, skip, site) ==
  /\ events = <<>>
  /\ lastOp = NoOp
  /\ LET r == getStackTraceAbove(skip, stackTraceNumLines, site) IN
     IF r.panic
       THEN /\ lastOp' = Op("panic", <<skip, stackTraceNumLines, site>>, 0, NoLevel, NoLevel)
            /\ UNCHANGED <<events, calls, outs, prepended, clock>>
       ELSE /\ events' = <<[newStdException(Msg, stackTraceNumLines, site, 1)
                              EXCEPT !.stackTrace = r.stackTrace]>>
            /\ calls' = <<NoCalls>>
            /\ outs' = <<{}>>
            /\ prepended' = <<<<>>>>
            /\ clock' = 1
            /\ lastOp' = Op("new", <<skip, stackTraceNumLines, site>>, 1, NoLevel, NoLevel)
  /\ eops' = eops + 1
  /\ UNCHANGED <<sinkVars, routeVars, polyVars, rt, plogs>>

\* one exception constructed with any depth and skip, then rendered
CaptureNext ==
  \/ \E n \in CaptureDepths, skip \in 0..MaxSkip, site \in Sites :
       newStdExceptionCall(n, skip, site)
  \/ \E e \in 1..MaxEvents : ExceptionLog(e)
  \/ \E e \in 1..MaxEvents : ExceptionLogAsJson(e)

CaptureInit == SinkParked(0) /\ RouteParked /\ PolyParked /\ EventParked

SpecCapture == CaptureInit /\ [][CaptureNext]_vars

SharedInit ==
  /\ events \in {<<se>> : se \in Fresh \cup {GetStackTraceAsString(x) : x \in Fresh}}
  /\ calls = <<[asked |-> IF events[1].stackTraceStr = <<>> THEN 0 ELSE 1,
                built |-> IF events[1].stackTraceStr = <<>> THEN 0 ELSE 1]>>
  /\ outs = <<{}>>
  /\ clock = 1
  /\ lastOp = NoOp
  /\ eops = 0
  /\ rt = [m \in Members |-> Resting]
  /\ plogs = 0
  /\ prepended = <<<<>>>>

\* PolyLogger.Log(errToLog): one goroutine per member runs logger.Log, which
\* calls errToLog.Log(file); Log returns when all of them are done
SharedLog(e) ==
  /\ plogs < MaxSharedLogs
  /\ e \in DOMAIN events
  /\ \A m \in Members : rt[m].pc = "idle"
  /\ rt' = [m \in Members |-> [pc |-> "nostack", e |-> e, str |-> <<>>, out |-> <<>>]]
  /\ plogs' = plogs + 1
  /\ UNCHANGED <<sinkVars, routeVars, polyVars, prepended, events, calls, outs, clock, lastOp, eops>>

\* Log: LogNoStack and the ":\n" after it
MemberLogNoStack(m) ==
  /\ rt[m].pc = "nostack"
  /\ rt' = [rt EXCEPT ![m].pc = "test",
                      ![m].out = LogNoStack(events[rt[m].e]) \o <<":\n">>]
  /\ UNCHANGED <<sinkVars, routeVars, polyVars, prepended, events, calls, outs, clock, lastOp, eops, plogs>>

\* what a read of stackTraceStr by m can give: the field, or, while another
\* goroutine is storing to it without synchronisation, the string being
\* stored or a torn mix of the two
Loads(m) ==
  {events[rt[m].e].stackTraceStr}
    \cup UNION {{rt[o].str, Torn} :
                  o \in {x \in Members \ {m} : rt[x].pc = "store" /\ rt[x].e = rt[m].e}}

\* GetStackTraceAsString: the test se.stackTraceStr == ""
MemberTest(m) ==
  /\ rt[m].pc = "test"
  /\ \E v \in Loads(m) :
       rt' = [rt EXCEPT ![m].pc = IF v = <<>> THEN "build" ELSE "ret"]
  /\ calls' = [calls EXCEPT ![rt[m].e].asked = @ + 1]
  /\ UNCHANGED <<sinkVars, routeVars, polyVars, prepended, events, outs, clock, lastOp, eops, plogs>>

\* GetStackTraceAsString: stackTraceAsString(se.stackTrace)
MemberBuild(m) ==
  /\ rt[m].pc = "build"
  /\ rt' = [rt EXCEPT ![m].pc = "store",
                      ![m].str = stackTraceAsString(events[rt[m].e].stackTrace)]
  /\ calls' = [calls EXCEPT ![rt[m].e].built = @ + 1]
  /\ UNCHANGED <<sinkVars, routeVars, polyVars, prepended, events, outs, clock, lastOp, eops, plogs>>

\* GetStackTraceAsString: the store se.stackTraceStr = ...
MemberStore(m) ==
  /\ rt[m].pc = "store"
  /\ events' = [events EXCEPT ![rt[m].e].stackTraceStr = rt[m].str]
  /\ rt' = [rt EXCEPT ![m].pc = "ret"]
  /\ UNCHANGED <<sinkVars, routeVars, polyVars, prepended, calls, outs, clock, lastOp, eops, plogs>>

\* GetStackTraceAsString: return se.stackTraceStr
MemberReturn(m) ==
  /\ rt[m].pc = "ret"
  /\ \E v \in Loads(m) : rt' = [rt EXCEPT ![m].pc = "write", ![m].str = v]
  /\ UNCHANGED <<sinkVars, routeVars, polyVars, prepended, events, calls, outs, clock, lastOp, eops, plogs>>

\* Log: writer.Write([]byte(le.GetStackTraceAsString()))
MemberWrite(m) ==
  /\ rt[m].pc = "write"
  /\ rt' = [rt EXCEPT ![m].pc = "idle", ![m].out = @ \o rt[m].str]
  /\ outs' = [outs EXCEPT ![rt[m].e] = @ \cup {<<"full", rt[m].str>>}]
  /\ UNCHANGED <<sinkVars, routeVars, polyVars, prepended, events, calls, clock, lastOp, eops, plogs>>

\* one exception logged through a PolyLogger
SharedNext ==
  \/ \E e \in 1..MaxEvents : SharedLog(e)
  \/ \E m \in Members : MemberLogNoStack(m)
  \/ \E m \in Members : MemberTest(m)
  \/ \E m \in Members : MemberBuild(m)
  \/ \E m \in Members : MemberStore(m)
  \/ \E m \in Members : MemberReturn(m)
  \/ \E m \in Members : MemberWrite(m)

FannedInit == SinkParked(0) /\ RouteParked /\ PolyParked /\ SharedInit

SpecShared == FannedInit /\ [][SharedNext]_vars

\* ----------------------------------------------------------------- claims
Range(q) == {q[i] : i \in DOMAIN q}

\* the records that have bytes in file n
RecordsIn(n) == {<<e.w, e.r>> : e \in Range(disk[n])}

AllRecords == UNION {RecordsIn(n) : n \in DOMAIN disk}

\* the chunk numbers of record <<w, r>> in file n, in file order
ChunksOf(n, w, r) ==
  LET es == SelectSeq(disk[n], LAMBDA e : e.w = w /\ e.r = r /\ e.c # SepChunk)
  IN [i \in 1..Len(es) |-> es[i].c]

\* all rendered bytes of record <<w, r>> are in file n, once and in order
Complete(n, w, r) == ChunksOf(n, w, r) = [i \in 1..NumChunks |-> i]

\* no record in file n is interrupted by bytes of another record
Contiguous(n) ==
  \A i, j \in DOMAIN disk[n] :
    (i < j /\ disk[n][i].w = disk[n][j].w /\ disk[n][i].r = disk[n][j].r)
      => \A m \in i..j : disk[n][m].w = disk[n][i].w /\ disk[n][m].r = disk[n][i].r

Quiescent == \A w \in Writers : wr[w].pc \in {"idle", "none"}

OkWrites == {x \in returned : x[3] = "ok"}

\* C1: under concurrent writers on one FileLogger no record's bytes are
\* interrupted by bytes of another record, every write that returned nil left
\* its complete record in the file, and when N writes have returned, all of
\* them nil, the file holds exactly N records.
C1_Serialized ==
  /\ \A n \in DOMAIN disk : Contiguous(n)
  /\ \A x \in OkWrites : Complete(BaseFilePath, x[1], x[2])
  /\ (Quiescent /\ OkWrites = returned)
       => Cardinality(RecordsIn(BaseFilePath)) = Cardinality(returned)

C1_Witness ==
  /\ Quiescent
  /\ \E x, y \in OkWrites : x[1] # y[1]
  /\ Cardinality(RecordsIn(BaseFilePath)) = MaxWrites

\* C2: a roll and a write of a timer driven RollingFileLogger exclude each
\* other: every byte of a record is in the file that was active when its
\* write acquired the mutex, no record has bytes in two files, and a write
\* that returned nil left its complete record in one file.
C2_RollExcludesWrite ==
  /\ \A n \in DOMAIN disk : \A e \in Range(disk[n]) : e.at = n
  /\ \A n1, n2 \in DOMAIN disk : n1 # n2 => RecordsIn(n1) \cap RecordsIn(n2) = {}
  /\ \A x \in OkWrites : \E n \in DOMAIN disk : Complete(n, x[1], x[2])

C2_Witness ==
  /\ rolls >= 1
  /\ \E n1, n2 \in DOMAIN disk :
       /\ n1 # n2
       /\ \E x \in OkWrites : Complete(n1, x[1], x[2])
       /\ \E y \in OkWrites : Complete(n2, y[1], y[2])

\* C3: with a single goroutine writing to a SizeBasedRollingFileLogger with
\* threshold k, the records 1..k are in one file, the records k+1..2k in
\* another one and so on (the (k+1)-th write lands in a new file), no record
\* has bytes outside the file that was active when its write began, and
\* between two writes the counter is the number of records written modulo k
\* (0 right after a roll), with one roll per k records.
C3_CountRoll ==
  /\ \A n \in DOMAIN disk : \A e \in Range(disk[n]) : e.at = n
  /\ \A n1, n2 \in DOMAIN disk : \A e1 \in Range(disk[n1]), e2 \in Range(disk[n2]) :
       ((e1.r - 1) \div countToRollOn = (e2.r - 1) \div countToRollOn) <=> (n1 = n2)
  /\ (Quiescent /\ cl.count = 0)
       => /\ curCount = Cardinality(AllRecords) % countToRollOn
          /\ rolls = Cardinality(AllRecords) \div countToRollOn

C3_Witness ==
  /\ Quiescent
  /\ curCount = 0
  /\ \E n \in DOMAIN disk :
       /\ n # InitialName("sized", <<>>)
       /\ \E e \in Range(disk[n]) : e.r = countToRollOn + 1
  /\ \E e \in Range(disk[InitialName("sized", <<>>)]) : e.r = countToRollOn

\* C4: no file of a SizeBasedRollingFileLogger ever receives more than
\* countToRollOn records, whatever the number of concurrent writers.
C4_AtMostKPerFile ==
  \A n \in DOMAIN disk : Cardinality(RecordsIn(n)) <= countToRollOn

\* C5: MultiFileLogger.Close calls Close exactly once on every logger it
\* holds, also on a logger that several levels share.
C5_ClosedOnce ==
  mcloses = 1 => \A i \in DOMAIN sinks : sinks[i].closes = 1

PathsUsed == {paths[l] : l \in DOMAIN paths}

\* C6: a built MultiFileLogger has one logger per distinct path among the
\* level entries, shared by all the levels of that path, and one more logger,
\* the default one, on the default path.
C6_OneLoggerPerPath ==
  mpc = "built" =>
    /\ DOMAIN loggers = DOMAIN paths
    /\ \A l \in DOMAIN paths : sinks[loggers[l]].path = paths[l]
    /\ \A l1, l2 \in DOMAIN paths : (paths[l1] = paths[l2]) <=> (loggers[l1] = loggers[l2])
    /\ Len(sinks) = Cardinality(PathsUsed) + 1
    /\ defaultLogger \in DOMAIN sinks
    /\ \A l \in DOMAIN paths : loggers[l] # defaultLogger
    /\ sinks[defaultLogger].path = defaultLogPath

C6_Witness ==
  /\ mpc = "built"
  /\ \E l1, l2, l3 \in DOMAIN paths :
       l1 # l2 /\ paths[l1] = paths[l2] /\ paths[l3] # paths[l1]
  /\ Len(sinks) = 3

TotalCalls == Sum([i \in DOMAIN sinks |-> sinks[i].calls], DOMAIN sinks)

\* C7: MultiFileLogger.Log hands the event to exactly one logger, the one
\* built for the path of the event's level when paths has that level and the
\* default logger otherwise (level not in paths, or no level), and returns
\* what that logger's Log returned.
C7_RoutesToOne ==
  nlogs > 0 =>
    /\ TotalCalls = nlogs
    /\ lastLog.sink \in DOMAIN sinks
    /\ IF lastLog.ev.lvl \in DOMAIN paths
         THEN /\ sinks[lastLog.sink].path = paths[lastLog.ev.lvl]
              /\ lastLog.sink # defaultLogger
         ELSE lastLog.sink = defaultLogger
    /\ lastLog.res = lastLog.got
    /\ lastLog.res = "ok" =>
         /\ rfiles[sinks[lastLog.sink].path] # <<>>
         /\ lastLog.ev = Last(rfiles[sinks[lastLog.sink].path])

C7_Witness ==
  /\ nlogs = 2
  /\ lastLog.ev.lvl \in LevelEnums \ DOMAIN paths
  /\ lastLog.sink = defaultLogger
  /\ lastLog.res = "ok"
  /\ \E l \in DOMAIN paths : sinks[loggers[l]].calls = 1

Returned(c) == pcl[c].pc = "idle" /\ pcl[c].n > 0

\* C8: every PolyLogger.Log that returns returns nil, whatever the members
\* returned; in that call handleLoggerFail (when there is one) was called
\* exactly once for each member whose Log failed and never for a member whose
\* Log succeeded, and every member whose Log succeeds wrote the event.
C8_FailuresIsolated ==
  \A c \in PCallers : Returned(c) =>
    /\ pcl[c].res = "nil"
    /\ \A m \in Members :
         /\ phandled[c][m] = (IF ploggers[m] = "fail" /\ phandler THEN 1 ELSE 0)
         /\ ploggers[m] = "ok" => <<c, pcl[c].n>> \in preceived[m]

C8_Witness ==
  /\ phandler
  /\ \E c \in PCallers, m1, m2 \in Members :
       /\ Returned(c)
       /\ ploggers[m1] = "fail" /\ phandled[c][m1] = 1
       /\ ploggers[m2] = "ok" /\ phandled[c][m2] = 0 /\ <<c, pcl[c].n>> \in preceived[m2]

\* C9: PolyLogger.Log starts one runLoggerWithFail goroutine per member on
\* the caller's event and returns only when all of them have finished: at the
\* return every member's Log has been called exactly once in that call,
\* failing members included, and no goroutine of the call is still running.
C9_WaitsForAll ==
  /\ \A c \in PCallers, m \in Members : pinvoked[c][m] <= 1
  /\ \A c \in PCallers : Returned(c) =>
       \A m \in Members : ptask[c][m] = "done" /\ pinvoked[c][m] = 1

C9_Witness ==
  \E c \in PCallers :
    /\ Returned(c)
    /\ \E m1, m2 \in Members : ploggers[m1] = "fail" /\ ploggers[m2] = "ok"
    /\ \A m \in Members : ptask[c][m] = "done" /\ pinvoked[c][m] = 1

C11_OneRollAfterClose ==
  (cl.count > 0 /\ cl.pc = "idle") => rolls - cl.rollsAt <= 1

\* C12: every Log that takes the mutex after a Close has returned returns an
\* error, whatever the rollEvery goroutine does after the Close.
C12_WritesAfterCloseFail ==
  \A x \in returned : x[5] => x[3] = "err"

\* base_DATE.ext and base_DATE(n).ext for the base path base and the date d
Stamp(base, d) ==
  Prefix(base, Len(base) - Len(Ext(base))) \o <<DateToks[d]>> \o Ext(base)

Versioned(base, d, n) ==
  Prefix(base, Len(base) - Len(Ext(base))) \o <<DateToks[d], "(", Digits[n], ")">>
    \o Ext(base)

\* the name a roll is to choose on date d among the files fs
Expected(base, d, fs) ==
  IF Stamp(base, d) \notin fs
    THEN Stamp(base, d)
    ELSE Versioned(base, d,
           CHOOSE n \in DOMAIN Digits :
             /\ Versioned(base, d, n) \notin fs
             /\ \A m \in 1..(n - 1) : Versioned(base, d, m) \in fs)

C14_NameFromBase ==
  [][rolls' = rolls + 1
       => /\ logFilePath' = Expected(baseFilePath, today', DOMAIN disk)
          /\ logFilePath' \notin DOMAIN disk]_vars

\* the files that hold records
Used == {n \in DOMAIN disk : RecordsIn(n) # {}}

\* C15: when a single goroutine has made 7 Log calls, all returning nil, on
\* a SizeBasedRollingFileLogger with threshold 3, the logger has rolled twice
\* and exactly 3 files hold records: the active file 1 and the two others 3
\* each.
C15_SevenWrites ==
  (countToRollOn = 3 /\ Quiescent /\ Cardinality(OkWrites) = 7
     /\ Cardinality(returned) = 7)
    => /\ rolls = 2
       /\ Cardinality(Used) = 3
       /\ file \in Used
       /\ Cardinality(RecordsIn(file)) = 1
       /\ \A n \in Used \ {file} : Cardinality(RecordsIn(n)) = 3
       /\ InitialName("sized", [n \in DOMAIN disk \ Used |-> <<>>]) \in Used

C15_Witness ==
  /\ countToRollOn = 3
  /\ Quiescent
  /\ Cardinality(OkWrites) = 7
  /\ Cardinality(returned) = 7
  /\ Cardinality(Used) = 3

\* the events written to the files, and their levels
Written == UNION {Range(rfiles[f]) : f \in DOMAIN rfiles}

\* one CRITICAL, one WARNING and one unleveled error have been logged, each
\* Log returning nil
ThreeLogged ==
  /\ mpc = "built"
  /\ nlogs = 3
  /\ Cardinality(Written) = 3
  /\ {e.lvl : e \in Written} = {LevelOf(EnumCritical), LevelOf(EnumWarning), NoLevel}

\* C16 as stated: after the three events, a.log, b.log and d.log hold one
\* record each and exactly 2 file loggers have been constructed.
C16_TwoSinks ==
  ThreeLogged =>
    /\ \A f \in {"a.log", "b.log", "d.log"} : Len(rfiles[f]) = 1
    /\ Len(sinks) = 2

\* C16 as amended: a.log, b.log and d.log hold one record each, exactly 2
\* loggers have been constructed for the three levels and the default logger
\* is a third one.
C16_TwoLevelSinks ==
  ThreeLogged =>
    /\ \A f \in {"a.log", "b.log", "d.log"} : Len(rfiles[f]) = 1
    /\ rfiles["a.log"][1].lvl = LevelOf(EnumCritical)
    /\ rfiles["b.log"][1].lvl = LevelOf(EnumWarning)
    /\ rfiles["d.log"][1].lvl = NoLevel
    /\ Cardinality({loggers[l] : l \in DOMAIN loggers}) = 2
    /\ defaultLogger \notin {loggers[l] : l \in DOMAIN loggers}
    /\ Len(sinks) = 3

C16_Witness ==
  /\ ThreeLogged
  /\ Len(rfiles["d.log"]) = 1
  /\ Len(sinks) = 3

\* a step of graduateOrConcatAndCreate
Promotes == eops' = eops + 1 /\ lastOp'.op = "promote"

\* C17: promoting a LeveledException returns the same exception with only its
\* level changed: the stack trace, the cached stack string, the timestamp, the
\* message and the message chain are as before, whatever promotions preceded.
C17_PromoteSetsLevelOnly ==
  [][(Promotes /\ events[lastOp'.arg].typ = "leveled") =>
       /\ lastOp'.res = lastOp'.arg
       /\ events' = [events EXCEPT ![lastOp'.arg].level = lastOp'.lvl]
       /\ calls' = calls]_vars

\* a LeveledException that was rendered, given a cause and then promoted to
\* another level
C17_Witness ==
  /\ lastOp.op = "promote"
  /\ lastOp.res = lastOp.arg
  /\ lastOp.was \in EventLevels \ {lastOp.lvl}
  /\ events[lastOp.res].level = lastOp.lvl
  /\ events[lastOp.res].stackTraceStr # <<>>
  /\ events[lastOp.res].messageChain # <<>>

\* C18: promoting a StdException, which has a stack trace and no level, gives
\* an exception of that level with the original stack trace, timestamp and message.
C18_PromoteKeepsStack ==
  [][(Promotes /\ events[lastOp'.arg].typ = "std") =>
       /\ events'[lastOp'.res].level = lastOp'.lvl
       /\ events'[lastOp'.res].stackTrace = events[lastOp'.arg].stackTrace
       /\ events'[lastOp'.res].timestamp = events[lastOp'.arg].timestamp
       /\ events'[lastOp'.res].message = events[lastOp'.arg].message]_vars

\* a StdException promoted at another site a second later: the exception
\* returned is a second one, with another stack trace and timestamp
C18_Witness ==
  /\ lastOp.op = "promote"
  /\ lastOp.res # lastOp.arg
  /\ events[lastOp.arg].typ = "std"
  /\ events[lastOp.res].stackTrace # events[lastOp.arg].stackTrace
  /\ events[lastOp.res].timestamp # events[lastOp.arg].timestamp
  /\ events[lastOp.arg].stackTraceStr # <<>>

\* the stack sections the full renders of exception e returned
Sections(e) == {o[2] : o \in {x \in outs[e] : x[1] = "full"}}

C20_SinkWritesNothing == [][events' = events]_vars

\* two member goroutines of one PolyLogger.Log are in GetStackTraceAsString on
\* the same exception while one of them stores to stackTraceStr
C20_Race ==
  \E m, o \in Members :
    /\ m # o
    /\ rt[m].pc = "store"
    /\ rt[o].pc \in {"test", "store", "ret"}
    /\ rt[o].e = rt[m].e

\* the separator of record <<w, r>> is in a file and a Sync covered it
Flushed(w, r) ==
  \E n \in DOMAIN disk : \E i \in 1..Len(disk[n]) :
    /\ disk[n][i].w = w
    /\ disk[n][i].r = r
    /\ disk[n][i].c = SepChunk
    /\ i <= synced[n]

\* C21: every write that succeeded, of a sherlog error or of a plain one and
\* in every mode, left its record followed by the separator in the file and
\* synced the file before it returned.
C21_SeparatedAndSynced == \A x \in returned : x[3] = "ok" => Flushed(x[1], x[2])

\* a write of a plain error returned nil with its bytes in the file, and
\* neither a separator nor a Sync followed
C21_Witness ==
  \E x \in returned :
    /\ x[3] = "ok"
    /\ <<x[1], x[2]>> \in AllRecords
    /\ ~Flushed(x[1], x[2])

NextMidnight(t) == CHOOSE m \in t + 1..t + UnitsPerDay : m % UnitsPerDay = 0

\* a step in which the rollNightly goroutine rolls
NightlyRolls == rolls' = rolls + 1 /\ kind = "nightly"

\* the file a successful roll opened is named after date d
NamedAfter(name, d) == \E i \in DOMAIN name : name[i] = DateToks[d]

C24_FailedRollIsolated ==
  /\ [](\A x \in returned : x[4] \in {"nil", "recovered"} => x[3] = "ok")
  /\ [][file = NilFile => rolls' = rolls]_vars

\* a roll failed, a Log made after it returned an error and wrote nothing,
\* and the timer goroutine rolled again and opened a file
C24_Witness ==
  /\ kind = "timed"
  /\ \E x \in returned : x[4] = "nil" /\ x[3] = "err" /\ <<x[1], x[2]>> \notin AllRecords
  /\ rolls >= 2
  /\ file # NilFile

\* C25: when NewMultiFileLogger fails, no logger it constructed on the way is
\* left with its file open.
C25_NothingSurvives ==
  mpc = "failed" => \A i \in DOMAIN sinks : sinks[i].closes > 0

\* the constructor failed on a later path, or on the default path, after it
\* had opened a logger that nothing closed
C25_Witness ==
  /\ mpc = "failed"
  /\ loggers # <<>>
  /\ \E i \in DOMAIN sinks : sinks[i].closes = 0

\* the Close calls that have started a goroutine for member m
Dispatched(m) == pclose.n + (IF pclose.pc = "range" /\ pclose.i > m THEN 1 ELSE 0)

\* C26: PolyLogger.Close starts one goroutine per member for each call and
\* calls no member's Close itself, so it returns whatever the goroutines have
\* done; each member's Close is called once per Close call, by its goroutine.
C26_CloseFiresAndForgets ==
  /\ [](\A m \in Members :
          /\ pclose.pending[m] + pclose.closes[m] = Dispatched(m)
          /\ pclose.closes[m] <= Dispatched(m))
  /\ [][pclose'.pc # pclose.pc \/ pclose'.i # pclose.i =>
          /\ pclose'.closes = pclose.closes
          /\ \A m \in Members : pclose'.pending[m] >= pclose.pending[m]]_vars

\* two Close calls have returned before any member's Close ran, then every
\* member's Close ran twice: here the first of the states
C26_Witness ==
  /\ pclose.pc = "idle"
  /\ pclose.n = 2
  /\ \A m \in Members : pclose.pending[m] = 2 /\ pclose.closes[m] = 0

\* every goroutine of two Close calls has run
C26_AllClosed ==
  /\ pclose.pc = "idle"
  /\ pclose.n = 2
  /\ \A m \in Members : pclose.pending[m] = 0 /\ pclose.closes[m] = 2

\* the chain entries a render must start with after PrependMsg was called with
\* said[1], ..., said[n] in this order: the last message first, each entry
\* ending in its message and followed by "\nCaused by:\n"
RECURSIVE IsChainOf(_, _)
IsChainOf(out, said) ==
  IF said = <<>> THEN out = <<>>
  ELSE /\ Len(out) >= 2
       /\ out[1] \in {<<now, " - ", said[Len(said)]>> : now \in 1..MaxClock}
       /\ out[2] = "\nCaused by:\n"
       /\ IsChainOf(SubSeq(out, 3, Len(out)), SubSeq(said, 1, Len(said) - 1))

\* the exception's own line: timestamp, level if any, message
OwnLine(se) ==
  <<se.timestamp, " - ">>
    \o (IF se.typ = "leveled" THEN <<levelLabels(se.level), " - ">> ELSE <<>>)
    \o se.message

\* the render out is the chain of said, then own, then rest
RendersChain(out, said, own, rest) ==
  /\ Len(out) = 2 * Len(said) + Len(own) + Len(rest)
  /\ IsChainOf(SubSeq(out, 1, 2 * Len(said)), said)
  /\ SubSeq(out, 2 * Len(said) + 1, Len(out)) = own \o rest

\* C27: after PrependMsg(m1), ..., PrependMsg(mn) on an exception, LogNoStack
\* and Log write mn, ..., m1 in this order, each followed by "\nCaused by:\n",
\* then the exception's own timestamp, level and message; PrependMsg changes
\* neither the stack trace nor the timestamp.
C27_OuterMostFirst ==
  /\ [](lastOp.op \in {"compact", "log"} =>
          \E o \in outs[lastOp.arg] :
            /\ o[1] = (IF lastOp.op = "log" THEN "full" ELSE "compact")
            /\ RendersChain(o[3], prepended[lastOp.arg], OwnLine(events[lastOp.arg]),
                            IF lastOp.op = "log"
                              THEN <<":\n">> \o stackTraceAsString(events[lastOp.arg].stackTrace)
                              ELSE <<>>))
  /\ [][lastOp'.op = "prepend" =>
          /\ events'[lastOp'.arg].stackTrace = events[lastOp'.arg].stackTrace
          /\ events'[lastOp'.arg].timestamp = events[lastOp'.arg].timestamp
          /\ events'[lastOp'.arg].message = events[lastOp'.arg].message]_vars

\* p was prepended, then q, then the exception was rendered in full
C27_Witness ==
  /\ lastOp.op = "log"
  /\ prepended[lastOp.arg] = <<"p", "q">>
  /\ \E o \in outs[lastOp.arg] :
       /\ o[1] = "full"
       /\ Len(o[3]) > 4
       /\ o[3][2] = "\nCaused by:\n"
       /\ o[3][4] = "\nCaused by:\n"
       /\ o[3][1][3] = "q"
       /\ o[3][3][3] = "p"

\* C28: a leveled error is logged by the logger registered for a level with
\* the same id as the error's level, whatever the type of the Level value.
C28_RoutedById ==
  \A l \in DOMAIN loggers :
    (lastLog.ev.lvl # NoLevel /\ lastLog.ev.lvl.id = l.id) => lastLog.sink = loggers[l]

\* an error whose level is a caller's type with id 0 was logged by the default
\* logger while another logger is registered for the LevelEnum with id 0
C28_Witness ==
  /\ lastLog.ev.lvl = [type |-> "custom", id |-> 0]
  /\ [type |-> "LevelEnum", id |-> 0] \in DOMAIN loggers
  /\ lastLog.sink = defaultLogger
  /\ loggers[[type |-> "LevelEnum", id |-> 0]] # defaultLogger
  /\ lastLog.res = "ok"

\* every Log call made has returned
Quiet == \A w \in Writers : wr[w].pc \in {"idle", "none"}

\* C29: no increment of curCount is lost: once N Log calls of any goroutines
\* have all returned nil and no roll has failed, the logger with threshold
\* countToRollOn has rolled N \div countToRollOn times and curCount is
\* N % countToRollOn.
C29_CountsEveryWrite ==
  (/\ kind = "sized"
   /\ Quiet
   /\ ~pendingFail
   /\ \A x \in returned : x[3] = "ok") =>
    /\ rolls = Cardinality(returned) \div countToRollOn
    /\ curCount = Cardinality(returned) % countToRollOn

\* two goroutines have each written one record to a logger that rolls on two
\* and both calls have returned nil: curCount is 1 and the logger never rolled
C29_Witness ==
  /\ kind = "sized"
  /\ countToRollOn = 2
  /\ Quiet
  /\ returned = {<<1, 1, "ok", "open", FALSE>>, <<2, 1, "ok", "open", FALSE>>}
  /\ curCount = 1
  /\ rolls = 0

\* the write of w's Log call has failed and the call is about to return
WriteFailed(w) ==
  \/ wr[w].pc = "unlock" /\ wr[w].err
  \/ wr[w].pc = "sync" /\ ~Valid(file)

\* C30: a Log call on a SizeBasedRollingFileLogger whose write failed returns
\* the error at once: nothing more is written, curCount is not incremented,
\* no roll happens and the active file stays the same.
C30_FailedWriteReturns ==
  [][\A w \in Writers :
       (kind = "sized" /\ WriteFailed(w) /\ wr'[w] # wr[w]) =>
         /\ wr'[w].pc = "idle"
         /\ \E x \in returned' \ returned : x[1] = w /\ x[3] = "err"
         /\ curCount' = curCount
         /\ rolls' = rolls
         /\ file' = file
         /\ logFilePath' = logFilePath
         /\ disk' = disk]_vars

\* the roll after the first write could not open its file, and the second
\* Log call, on the nil handle, has returned its error
C30_Witness ==
  /\ kind = "sized"
  /\ Quiet
  /\ <<1, 2, "err", "nil", FALSE>> \in returned
  /\ file = NilFile
  /\ rolls = 1
  /\ curCount = 0

\* C31: a Log call on a SizeBasedRollingFileLogger returns an error only if
\* its own record was not written and synced: a failure of the roll that the
\* write triggers is not returned by that call.
C31_ErrorMeansNotWritten ==
  kind = "sized" => \A x \in returned : x[3] = "err" => ~Flushed(x[1], x[2])

\* the first Log call wrote and synced its record, the roll it triggered
\* could not open the new file, and the call returned that error
C31_Witness ==
  /\ kind = "sized"
  /\ countToRollOn = 1
  /\ <<1, 1, "err", "open", FALSE>> \in returned
  /\ Flushed(1, 1)
  /\ file = NilFile
  /\ rolls = 1

\* C32: concurrent PolyLogger.Log calls do not hold each other up: a call whose
\* own goroutines have all finished is not left parked in Wait by another
\* call's goroutines, the WaitGroup counter never goes negative and no Wait
\* panics.
C32_CallsIndependent ==
  /\ wgCounter >= 0
  /\ ~ppanic
  /\ \A c \in DOMAIN pcl :
       (pcl[c].pc = "parked" /\ \A m \in Members : ptask[c][m] = "done") => wgSema > 0

\* the first call is parked in Wait with all of its goroutines finished, kept
\* there by a goroutine of the second call
C32_Witness ==
  /\ pcl # <<>>
  /\ pcl[1].pc = "parked"
  /\ \A m \in Members : ptask[1][m] = "done"
  /\ wgSema = 0
  /\ wgCounter > 0
  /\ \E m \in Members : ptask[2][m] = "run"

\* a Wait woken while another call has added to the WaitGroup again panics
C32_Panicked == ppanic /\ wgCounter > 0

\* C33: Close does not interrupt a write: once the Log calls have returned,
\* every record that has bytes in a file has all of its rendered bytes there,
\* never only a prefix of them.
C33_NoTornRecord ==
  Quiescent => \A n \in DOMAIN disk : \A x \in RecordsIn(n) : Complete(n, x[1], x[2])

\* Close ran between two Writes of the first Log call: the call returned the
\* error of its second Write and the file keeps the first chunk alone
C33_Witness ==
  /\ kind = "file"
  /\ Quiescent
  /\ cl.count = 1
  /\ <<1, 1, "err", "open", FALSE>> \in returned
  /\ ChunksOf(BaseFilePath, 1, 1) = <<1>>

\* C34: the logger holds at most one open file: a roll has closed the handle
\* it replaces, and once Close has returned and the rollEvery goroutine has
\* left its loop, the logger holds no open file.
C34_NoHandleLeft ==
  /\ [][(file' # file /\ file # NilFile) => file \in closed']_vars
  /\ []((cl.count > 0 /\ cl.pc = "idle" /\ tpc = "exit") => ~Valid(file))

\* Close returned during the Sleep of rollIn; the roll then opened a new file
\* and the goroutine left its loop: the new file stays open
C34_Witness ==
  /\ kind = "timed"
  /\ cl.count = 1
  /\ cl.pc = "idle"
  /\ tpc = "exit"
  /\ rolls = cl.rollsAt + 1
  /\ Valid(file)
  /\ Cardinality(closed) = 1

\* C35: incFileNameUntilNotExists returns after finitely many increments,
\* whatever os.Stat answers: it increments the name at most once per existing
\* file, and the name it returns is the one the scan over the existing
\* files gives.
C35_ScanTerminates ==
  /\ scan.incs <= Cardinality(DOMAIN scan.fs)
  /\ scan.pc = "done" => scan.name = incFileNameUntilNotExists(scan.from, scan.fs)

\* no file exists, os.Stat fails on every name, and the loop has incremented
\* the name as often as the bound lets it without returning
C35_Witness ==
  /\ scan.pc = "test"
  /\ scan.denied
  /\ DOMAIN scan.fs = {}
  /\ scan.incs = MaxScan

\* the scan has passed three existing files and returned
C35_Returned ==
  /\ scan.pc = "done"
  /\ ~scan.denied
  /\ scan.incs = 3

\* C36: no two loggers of one MultiFileLogger, the default logger included,
\* are open on the same path: a default path equal to a level's path is
\* served by that level's logger.
C36_OneLoggerPerFile ==
  mpc = "built" =>
    \A i, j \in DOMAIN sinks : sinks[i].path = sinks[j].path => i = j

\* the default path is a level's path: the default logger and the level's
\* logger are two FileLoggers on that file and both have written to it
C36_Witness ==
  /\ mpc = "built"
  /\ \E i \in DOMAIN sinks :
       /\ i # defaultLogger
       /\ sinks[i].path = sinks[defaultLogger].path
       /\ sinks[i].calls > 0
       /\ sinks[defaultLogger].calls > 0
       /\ Len(rfiles[sinks[i].path]) = 2

\* C37: a level helper called with the single argument nil makes no
\* exception, writes no record and returns: the call does not panic.
C37_NilIsNoEvent ==
  /\ [][lastOp'.op = "helper" =>
          /\ lastOp'.res = NilException
          /\ events' = events
          /\ disk' = disk]_vars
  /\ [](\A w \in DOMAIN wr : wr[w].pc # "panicked")

\* Critical(nil) after a Log that returned nil: no record was added, and the
\* goroutine is unwinding from the panic with the mutex released
C37_Witness ==
  /\ kind = "sized"
  /\ wr[1].pc = "panicked"
  /\ lastOp.op = "helper"
  /\ mutex = Free
  /\ returned = {<<1, 1, "ok", "open", FALSE>>}
  /\ AllRecords = {<<1, 1>>}

\* the frames of the stack above skip
Available(skip, site) ==
  IF skip >= Len(RuntimeStack(site)) THEN 0 ELSE Len(RuntimeStack(site)) - skip

\* C38: constructing an exception never fails, whatever depth and skip are
\* asked for; it holds min(depth, frames above the skip) frames, never more
\* than the depth, and an exception without frames renders with an empty
\* stack section.
C38_CaptureNeverFails ==
  /\ [](lastOp.op # "panic")
  /\ [][(lastOp.op = "none" /\ lastOp'.op = "new") =>
          LET skip == lastOp'.arg[1]
              depth == lastOp'.arg[2]
              avail == Available(skip, lastOp'.arg[3])
              n == Len(events'[1].stackTrace)
          IN /\ n = (IF depth < avail THEN depth ELSE avail)
             /\ n <= depth]_vars
  /\ [](\A e \in DOMAIN events : \A o \in outs[e] :
          events[e].stackTrace = <<>> => o[2] = <<>>)

\* NewStdExceptionWithStackTraceSize(message, -1): the constructor panicked
C38_Witness ==
  /\ lastOp.op = "panic"
  /\ lastOp.arg[1] = 4
  /\ lastOp.arg[2] = -1
  /\ events = <<>>

\* an exception constructed with depth 0 was rendered: no frame, no stack section
C38_EmptyRendered ==
  /\ events # <<>>
  /\ events[1].maxStackTraceSize = 0
  /\ <<"json", <<>>>> \in outs[1]

====
